---- MODULE Spec2Model ----
(***************************************************************************)
(* Host-graph store of the GP2 compiler (Compiler/graph.c): the graph, its *)
(* nodes, edges, labels, pointer arrays and free-slot stacks are objects   *)
(* of a heap, addressed by positive integers; 0 is the NULL pointer.       *)
(***************************************************************************)
EXTENDS Integers, Sequences, FiniteSets, TLC

VARIABLES heap, host, graph_stack, crashed, last, nops, snapObs, expected,
          yyin, tokens, oilr

vars == <<heap, host, graph_stack, crashed, last, nops, snapObs, expected,
          yyin, tokens, oilr>>

(***************************************************************************)
(* Bounds of the model.                                                    *)
(***************************************************************************)
\* capacity of a graph's node pointer array
MAX_NODES == 3
\* capacity of a graph's edge pointer array
MAX_EDGES == 3
\* capacity of a node's out_edges and in_edges arrays
MAX_INCIDENT_EDGES == 2
\* number of operations of a run of Spec
MaxOps == 4
\* number of operations of a run of SpecSnap
MaxSnapOps == 5
\* number of graphs on the snapshot stack
MaxSnapshots == 2
\* calls in a behaviour of SpecSlots
MaxSlotOps == 8
\* calls in a behaviour of SpecLabels
MaxLabelOps == 2
\* calls in a behaviour of SpecToggle
MaxToggleOps == 5
\* characters of the text given to the lexer
MaxInput == 5
\* calls in a behaviour of SpecDetach
MaxDetachOps == 6
\* calls in a behaviour of SpecKeep
MaxKeepOps == 4
\* calls in a behaviour of SpecRefs
MaxRefsOps == 5
\* calls in a behaviour of SpecFull
MaxFullOps == 6
\* calls in a behaviour of SpecPop
MaxPopOps == 6
\* Nodges in the pool of the OILR prototype (DEFAULT_POOL_SIZE)
MaxPool == 3
\* calls in a behaviour of SpecOilr
MaxOilrOps == 7
\* calls in a behaviour of SpecDList
MaxDListOps == 6
\* calls in a behaviour of SpecStack
MaxStackOps == 6
\* calls in a behaviour of SpecFree
MaxFreeOps == 7
\* calls in a behaviour of SpecValid
MaxValidOps == 5
\* calls in a behaviour of SpecBack
MaxBackOps == 5
\* calls in a behaviour of SpecRelabel
MaxRelabelOps == 5
\* length of the longest list of a label; the GP 2 maximum is 5
MaxListLength == 6

NULL == 0

(***************************************************************************)
(* Labels.                                                                 *)
(***************************************************************************)
Marks == {"NONE", "RED", "GREEN", "BLUE", "GREY", "DASHED", "ANY"}

Atom(type, number, string, args) ==
    [type |-> type, number |-> number, string |-> string, args |-> args]

IntAtom(n) == Atom("INTEGER_CONSTANT", n, "", <<>>)
StrAtom(s) == Atom("STRING_CONSTANT", 0, s, <<>>)
VarAtom(v) == Atom("VARIABLE", 0, v, <<>>)
CharAtom(c) == Atom("CHARACTER_CONSTANT", 0, c, <<>>)
NegAtom(exp) == Atom("NEG", 0, "", <<exp>>)
ConcatAtom(left_exp, right_exp) == Atom("CONCAT", 0, "", <<left_exp, right_exp>>)

Label(mark, list, has_list_variable) ==
    [mark |-> mark, list |-> list, list_length |-> Len(list),
     has_list_variable |-> has_list_variable]

\* the static object blank_label and its address &blank_label
blank_label == Label("NONE", <<>>, FALSE)
BlankAddr == 1

\* the values of LabelClass
LabelClasses ==
    {"EMPTY_L", "INT_L", "STRING_L", "ATOMIC_VAR_L", "LIST2_L", "LIST3_L",
     "LIST4_L", "LIST5_L", "LISTVAR_L"}

\* faulty variant: the length is looked at before the list variable
getLabelClass_lengthFirst(label) ==
    IF label.list = <<>> THEN "EMPTY_L"
    ELSE IF label.list_length \in 2..5
         THEN <<"LIST2_L", "LIST3_L", "LIST4_L", "LIST5_L">>[label.list_length - 1]
    ELSE IF label.has_list_variable THEN "LISTVAR_L"
    ELSE LET atom == Head(label.list) IN
         CASE atom.type = "VARIABLE" -> "ATOMIC_VAR_L"
           [] atom.type \in {"INTEGER_CONSTANT", "NEG"} -> "INT_L"
           [] OTHER -> "STRING_L"

getLabelClass(label) ==
    IF label.has_list_variable THEN "LISTVAR_L"
    ELSE IF label.list = <<>> THEN "EMPTY_L"
    ELSE IF label.list_length = 2 THEN "LIST2_L"
    ELSE IF label.list_length = 3 THEN "LIST3_L"
    ELSE IF label.list_length = 4 THEN "LIST4_L"
    ELSE IF label.list_length = 5 THEN "LIST5_L"
    ELSE LET atom == Head(label.list) IN
         CASE atom.type = "VARIABLE" -> "ATOMIC_VAR_L"
           [] atom.type \in {"INTEGER_CONSTANT", "NEG"} -> "INT_L"
           [] atom.type \in {"CHARACTER_CONSTANT", "STRING_CONSTANT", "CONCAT"}
                -> "STRING_L"
           [] OTHER -> "LISTVAR_L"

\* getLabelClass writes "The length of the passed list exceeds the GP 2
\* maximum" to the log: the default branch of its switch on the length
getLabelClassLogsTooLong(label) ==
    /\ ~label.has_list_variable
    /\ label.list # <<>>
    /\ label.list_length > 1
    /\ label.list_length \notin 2..5

(***************************************************************************)
(* The heap: one partial function per kind of object; an address is        *)
(* allocated iff it is in the function's domain.  malloc hands out the     *)
(* least address not in use.                                               *)
(***************************************************************************)
FreshAddr(f) ==
    CHOOSE a \in 1..(Cardinality(DOMAIN f) + 1) :
        a \notin DOMAIN f /\ \A b \in 1..(a - 1) : b \in DOMAIN f

Release(f, a) == [x \in (DOMAIN f) \ {a} |-> f[x]]

EmptyHeap ==
    [nodes |-> <<>>, edges |-> <<>>, labels |-> (BlankAddr :> blank_label),
     arrs |-> <<>>, stks |-> <<>>, graphs |-> <<>>]

calloc(H, n) ==
    LET p == FreshAddr(H.arrs) IN
    [H |-> [H EXCEPT !.arrs = @ @@ (p :> [i \in 0..(n - 1) |-> NULL])], p |-> p]

\* a Label built by the caller and handed over to the graph
makeLabel(H, label) ==
    LET p == FreshAddr(H.labels) IN
    [H |-> [H EXCEPT !.labels = @ @@ (p :> label)], p |-> p]

(***************************************************************************)
(* The free-slot stacks (stack.c): a stack is a sequence, top first.       *)
(***************************************************************************)
newStack(H) ==
    LET p == FreshAddr(H.stks) IN
    [H |-> [H EXCEPT !.stks = @ @@ (p :> <<>>)], p |-> p]

push(H, s, data) == [H EXCEPT !.stks[s] = <<data>> \o @]

\* pop returns NULL (ok = FALSE) on an empty stack, else the data on top
pop(H, s) ==
    IF H.stks[s] = <<>> THEN [H |-> H, ok |-> FALSE, data |-> NULL]
    ELSE [H |-> [H EXCEPT !.stks[s] = Tail(@)], ok |-> TRUE,
          data |-> Head(H.stks[s])]

freeStack(H, s) == [H EXCEPT !.stks = Release(@, s)]

(***************************************************************************)
(* GLib singly linked lists and the label-class hash tables.               *)
(***************************************************************************)
g_slist_prepend(list, x) == <<x>> \o list

\* removes the first occurrence of x only
RECURSIVE g_slist_remove(_, _)
g_slist_remove(list, x) ==
    IF list = <<>> THEN <<>>
    ELSE IF Head(list) = x THEN Tail(list)
    ELSE <<Head(list)>> \o g_slist_remove(Tail(list), x)

g_slist_find(list, x) == \E i \in 1..Len(list) : list[i] = x

\* a hash table is a function from the keys present to lists; NULL is <<>>
g_hash_table_new == [k \in {} |-> <<>>]

g_hash_table_lookup(table, key) ==
    IF key \in DOMAIN table THEN table[key] ELSE <<>>

g_hash_table_insert(table, key, value) ==
    [k \in (DOMAIN table) \cup {key} |-> IF k = key THEN value ELSE table[k]]

g_hash_table_remove(table, key) == [k \in (DOMAIN table) \ {key} |-> table[k]]

(***************************************************************************)
(* Construction.                                                           *)
(***************************************************************************)
newGraph(H) ==
    LET a1 == calloc(H, MAX_NODES)
        a2 == calloc(a1.H, MAX_EDGES)
        s1 == newStack(a2.H)
        s2 == newStack(s1.H)
        p  == FreshAddr(H.graphs)
        G  == [nodes |-> a1.p, edges |-> a2.p,
               free_node_slots |-> s1.p, free_edge_slots |-> s2.p,
               next_node_index |-> 0, next_edge_index |-> 0,
               number_of_nodes |-> 0, number_of_edges |-> 0,
               nodes_by_label |-> g_hash_table_new, edges_by_label |-> g_hash_table_new,
               root_nodes |-> <<>>]
    IN [H |-> [s2.H EXCEPT !.graphs = @ @@ (p :> G)], p |-> p]

newNode(H, root, label) ==
    LET a1 == calloc(H, MAX_INCIDENT_EDGES)
        a2 == calloc(a1.H, MAX_INCIDENT_EDGES)
        s1 == newStack(a2.H)
        s2 == newStack(s1.H)
        p  == FreshAddr(H.nodes)
        N  == [index |-> 0, root |-> root,
               label |-> IF label = NULL THEN BlankAddr ELSE label,
               label_class |-> IF label = NULL THEN "EMPTY_L"
                               ELSE getLabelClass(H.labels[label]),
               indegree |-> 0, outdegree |-> 0,
               out_edges |-> a1.p, in_edges |-> a2.p,
               free_out_edge_slots |-> s1.p, free_in_edge_slots |-> s2.p,
               next_out_edge_index |-> 0, next_in_edge_index |-> 0]
    IN [H |-> [s2.H EXCEPT !.nodes = @ @@ (p :> N)], p |-> p]

newEdge(H, bidirectional, label, source, target) ==
    LET p == FreshAddr(H.edges)
        E == [index |-> 0, bidirectional |-> bidirectional,
              label |-> IF label = NULL THEN BlankAddr ELSE label,
              label_class |-> IF label = NULL THEN "EMPTY_L"
                              ELSE getLabelClass(H.labels[label]),
              source |-> source, target |-> target]
    IN [H |-> [H EXCEPT !.edges = @ @@ (p :> E)], p |-> p]

(***************************************************************************)
(* Destruction.                                                            *)
(***************************************************************************)
freeLabel(H, label) ==
    IF label = NULL THEN H ELSE [H EXCEPT !.labels = Release(@, label)]

freeNode(H, node) ==
    IF node = NULL THEN H
    ELSE LET N  == H.nodes[node]
             H1 == IF N.label # NULL /\ N.label # BlankAddr
                   THEN freeLabel(H, N.label) ELSE H
             H2 == [H1 EXCEPT !.arrs = Release(Release(@, N.in_edges), N.out_edges)]
             H3 == freeStack(freeStack(H2, N.free_out_edge_slots),
                             N.free_in_edge_slots)
         IN [H3 EXCEPT !.nodes = Release(@, node)]

freeEdge(H, edge) ==
    IF edge = NULL THEN H
    ELSE LET E  == H.edges[edge]
             H1 == IF E.label # NULL /\ E.label # BlankAddr
                   THEN freeLabel(H, E.label) ELSE H
         IN [H1 EXCEPT !.edges = Release(@, edge)]

(***************************************************************************)
(* Querying functions.                                                     *)
(***************************************************************************)
getNode(H, g, index) ==
    IF index > H.graphs[g].next_node_index THEN NULL
    ELSE H.arrs[H.graphs[g].nodes][index]

getEdge(H, g, index) ==
    IF index > H.graphs[g].next_edge_index THEN NULL
    ELSE H.arrs[H.graphs[g].edges][index]

getOutEdge(H, node, index) ==
    IF index > H.nodes[node].next_out_edge_index THEN NULL
    ELSE H.arrs[H.nodes[node].out_edges][index]

getInEdge(H, node, index) ==
    IF index > H.nodes[node].next_in_edge_index THEN NULL
    ELSE H.arrs[H.nodes[node].in_edges][index]

getSource(H, edge) == H.edges[edge].source

getTarget(H, edge) == H.edges[edge].target

getRootNodes(H, g) == H.graphs[g].root_nodes

getNodesByLabel(H, g, label_class) ==
    g_hash_table_lookup(H.graphs[g].nodes_by_label, label_class)

getEdgesByLabel(H, g, label_class) ==
    g_hash_table_lookup(H.graphs[g].edges_by_label, label_class)

(***************************************************************************)
(* printGraph.  The output is the sequence of the pieces written: the      *)
(* texts of the printf calls without arguments, and a record for each      *)
(* node and each edge holding what is written for it (the index, whether   *)
(* (R) or (B) is written, the indices of source and target, the list or    *)
(* "empty", and the mark).                                                 *)
(***************************************************************************)
printf(string) == [text |-> string]

printLabel(H, label) ==
    [list |-> IF H.labels[label].list # <<>> THEN H.labels[label].list ELSE "empty",
     mark |-> H.labels[label].mark]

printedNode(H, index, node) ==
    [n |-> index, R |-> H.nodes[node].root, label |-> printLabel(H, H.nodes[node].label)]

printedEdge(H, index, edge) ==
    [e |-> index, B |-> H.edges[edge].bidirectional,
     source |-> H.nodes[H.edges[edge].source].index,
     target |-> H.nodes[H.edges[edge].target].index,
     label |-> printLabel(H, H.edges[edge].label)]

RECURSIVE printNodes(_, _, _, _)
printNodes(H, g, index, node_count) ==
    IF ~(index < H.graphs[g].next_node_index) THEN <<>>
    ELSE IF H.arrs[H.graphs[g].nodes][index] # NULL
         THEN (IF node_count # 0 /\ node_count % 5 = 0 THEN <<printf("newline")>> ELSE <<>>)
              \o <<printedNode(H, index, getNode(H, g, index))>>
              \o printNodes(H, g, index + 1, node_count + 1)
         ELSE printNodes(H, g, index + 1, node_count)

RECURSIVE printEdges(_, _, _, _)
printEdges(H, g, index, edge_count) ==
    IF ~(index < H.graphs[g].next_edge_index) THEN <<>>
    ELSE IF H.arrs[H.graphs[g].edges][index] # NULL
         THEN (IF edge_count # 0 /\ edge_count % 3 = 0 THEN <<printf("newline")>> ELSE <<>>)
              \o <<printedEdge(H, index, getEdge(H, g, index))>>
              \o printEdges(H, g, index + 1, edge_count + 1)
         ELSE printEdges(H, g, index + 1, edge_count)

printGraph(H, g) ==
    IF g = NULL THEN <<printf("[ | ]")>>
    ELSE IF H.graphs[g].number_of_nodes = 0 THEN <<printf("[ | ]")>>
    ELSE IF H.graphs[g].number_of_edges = 0
         THEN <<printf("[ ")>> \o printNodes(H, g, 0, 0) \o <<printf("| ]")>>
    ELSE <<printf("[ ")>> \o printNodes(H, g, 0, 0) \o <<printf("|"), printf("newline")>>
         \o printEdges(H, g, 0, 0) \o <<printf("]")>>

(***************************************************************************)
(* addNode.                                                                *)
(***************************************************************************)
\* faulty variant: the node's index is taken from the node count
addNodeSlot_indexFromCount(H, g, node) ==
    LET G == H.graphs[g]
        top == pop(H, G.free_node_slots)
    IN IF ~top.ok
       THEN [top.H EXCEPT !.arrs[G.nodes][G.next_node_index] = node,
                           !.nodes[node].index = G.number_of_nodes,
                           !.graphs[g].next_node_index = @ + 1]
       ELSE [top.H EXCEPT !.arrs[G.nodes][top.data] = node,
                           !.nodes[node].index = G.number_of_nodes]

\* faulty variant: the slot that has been free longest is taken first
addNodeSlot_oldestFirst(H, g, node) ==
    LET G == H.graphs[g]
        stack == H.stks[G.free_node_slots]
    IN IF stack = <<>>
       THEN [H EXCEPT !.arrs[G.nodes][G.next_node_index] = node,
                      !.nodes[node].index = G.next_node_index,
                      !.graphs[g].next_node_index = @ + 1]
       ELSE [H EXCEPT !.stks[G.free_node_slots] = SubSeq(@, 1, Len(@) - 1),
                      !.arrs[G.nodes][stack[Len(stack)]] = node,
                      !.nodes[node].index = stack[Len(stack)]]

\* the node pointer array: a free slot if there is one, else the next index
addNodeSlot(H, g, node) ==
    LET G == H.graphs[g]
        top == pop(H, G.free_node_slots)
    IN IF ~top.ok
       THEN [top.H EXCEPT !.arrs[G.nodes][G.next_node_index] = node,
                           !.nodes[node].index = G.next_node_index,
                           !.graphs[g].next_node_index = @ + 1]
       ELSE [top.H EXCEPT !.arrs[G.nodes][top.data] = node,
                           !.nodes[node].index = top.data]

addNode(H, g, node) ==
    LET H1 == addNodeSlot(H, g, node)
        N  == H1.nodes[node]
        label_key == N.label_class
        node_list == g_slist_prepend(
                        g_hash_table_lookup(H1.graphs[g].nodes_by_label, label_key),
                        node)
    IN [H1 EXCEPT
          !.graphs[g].nodes_by_label = g_hash_table_insert(@, label_key, node_list),
          !.graphs[g].root_nodes = IF N.root THEN g_slist_prepend(@, node) ELSE @,
          !.graphs[g].number_of_nodes = @ + 1]

(***************************************************************************)
(* addEdge.                                                                *)
(***************************************************************************)
addEdgeSlot(H, g, edge) ==
    LET G == H.graphs[g]
        top == pop(H, G.free_edge_slots)
    IN IF ~top.ok
       THEN [top.H EXCEPT !.arrs[G.edges][G.next_edge_index] = edge,
                           !.edges[edge].index = G.next_edge_index,
                           !.graphs[g].next_edge_index = @ + 1]
       ELSE [top.H EXCEPT !.arrs[G.edges][top.data] = edge,
                           !.edges[edge].index = top.data]

addOutEdge(H, edge) ==
    LET source == H.edges[edge].source
        S == H.nodes[source]
        top == pop(H, S.free_out_edge_slots)
        H1 == IF ~top.ok
              THEN [top.H EXCEPT
                      !.arrs[S.out_edges][S.next_out_edge_index] = edge,
                      !.nodes[source].next_out_edge_index = @ + 1]
              ELSE [top.H EXCEPT !.arrs[S.out_edges][top.data] = edge]
    IN [H1 EXCEPT !.nodes[source].outdegree = @ + 1]

\* faulty variant: the edge is entered in the in_edges array of its source
addInEdge_atSource(H, edge) ==
    LET target == H.edges[edge].source
        T == H.nodes[target]
        top == pop(H, T.free_in_edge_slots)
        H1 == IF ~top.ok
              THEN [top.H EXCEPT
                      !.arrs[T.in_edges][T.next_in_edge_index] = edge,
                      !.nodes[target].next_in_edge_index = @ + 1]
              ELSE [top.H EXCEPT !.arrs[T.in_edges][top.data] = edge]
    IN [H1 EXCEPT !.nodes[target].indegree = @ + 1]

addInEdge(H, edge) ==
    LET target == H.edges[edge].target
        T == H.nodes[target]
        top == pop(H, T.free_in_edge_slots)
        H1 == IF ~top.ok
              THEN [top.H EXCEPT
                      !.arrs[T.in_edges][T.next_in_edge_index] = edge,
                      !.nodes[target].next_in_edge_index = @ + 1]
              ELSE [top.H EXCEPT !.arrs[T.in_edges][top.data] = edge]
    IN [H1 EXCEPT !.nodes[target].indegree = @ + 1]

\* faulty variant: the list of edges is entered in nodes_by_label
addEdge_intoNodesByLabel(H, g, edge) ==
    LET H1 == addInEdge(addOutEdge(addEdgeSlot(H, g, edge), edge), edge)
        label_key == H1.edges[edge].label_class
        edge_list == g_slist_prepend(
                        g_hash_table_lookup(H1.graphs[g].edges_by_label, label_key),
                        edge)
    IN [H1 EXCEPT
          !.graphs[g].nodes_by_label = g_hash_table_insert(@, label_key, edge_list),
          !.graphs[g].number_of_edges = @ + 1]

addEdge(H, g, edge) ==
    LET H1 == addInEdge(addOutEdge(addEdgeSlot(H, g, edge), edge), edge)
        label_key == H1.edges[edge].label_class
        edge_list == g_slist_prepend(
                        g_hash_table_lookup(H1.graphs[g].edges_by_label, label_key),
                        edge)
    IN [H1 EXCEPT
          !.graphs[g].edges_by_label = g_hash_table_insert(@, label_key, edge_list),
          !.graphs[g].number_of_edges = @ + 1]

(***************************************************************************)
(* removeNode.  The result says whether the node was removed ("ok") or the *)
(* call was refused because the node has incident edges ("refused").       *)
(***************************************************************************)
removeNodeIndex(H, g, node) ==
    LET N == H.nodes[node]
        label_key == N.label_class
        node_list == g_slist_remove(
                        g_hash_table_lookup(H.graphs[g].nodes_by_label, label_key),
                        node)
    IN [H EXCEPT
          !.graphs[g].nodes_by_label =
              IF node_list = <<>> THEN g_hash_table_remove(@, label_key)
              ELSE g_hash_table_insert(@, label_key, node_list),
          !.graphs[g].root_nodes = IF N.root THEN g_slist_remove(@, node) ELSE @]

\* faulty variant: the array shrinks whichever slot is emptied
removeNodeSlot_shrinkAlways(H, g, index) ==
    LET G  == H.graphs[g]
        H1 == [H EXCEPT !.arrs[G.nodes][index] = NULL]
        H2 == [H1 EXCEPT !.graphs[g].next_node_index = @ - 1]
    IN [H2 EXCEPT !.graphs[g].number_of_nodes = @ - 1]

\* the slot is set to NULL; the last slot shrinks the array, any other slot
\* goes on the free node slot stack
removeNodeSlot(H, g, index) ==
    LET G  == H.graphs[g]
        H1 == [H EXCEPT !.arrs[G.nodes][index] = NULL]
        H2 == IF index = G.next_node_index - 1
              THEN [H1 EXCEPT !.graphs[g].next_node_index = @ - 1]
              ELSE push(H1, G.free_node_slots, index)
    IN [H2 EXCEPT !.graphs[g].number_of_nodes = @ - 1]

\* faulty variant: the node leaves the class index and the root list before
\* the degree test
removeNode_unindexFirst(H, g, index) ==
    LET node == getNode(H, g, index)
        N == H.nodes[node]
    IN IF N.indegree > 0 \/ N.outdegree > 0
       THEN [H |-> removeNodeIndex(H, g, node), status |-> "refused"]
       ELSE [H |-> removeNodeSlot(freeNode(removeNodeIndex(H, g, node), node),
                                  g, index),
             status |-> "ok"]

\* faulty variant: the node count is decremented before the degree test
removeNode_countFirst(H, g, index) ==
    LET node == getNode(H, g, index)
        N == H.nodes[node]
    IN IF N.indegree > 0 \/ N.outdegree > 0
       THEN [H |-> [H EXCEPT !.graphs[g].number_of_nodes = @ - 1],
             status |-> "refused"]
       ELSE [H |-> removeNodeSlot(freeNode(removeNodeIndex(H, g, node), node),
                                  g, index),
             status |-> "ok"]

\* faulty variant: the test is on the high-water marks of the node's arrays
removeNode_testsHighWater(H, g, index) ==
    LET node == getNode(H, g, index)
        N == H.nodes[node]
    IN IF N.next_in_edge_index > 0 \/ N.next_out_edge_index > 0
       THEN [H |-> H, status |-> "refused"]
       ELSE [H |-> removeNodeSlot(freeNode(removeNodeIndex(H, g, node), node),
                                  g, index),
             status |-> "ok"]

removeNode(H, g, index) ==
    LET node == getNode(H, g, index)
        N == H.nodes[node]
    IN IF N.indegree > 0 \/ N.outdegree > 0
       THEN [H |-> H, status |-> "refused"]
       ELSE [H |-> removeNodeSlot(freeNode(removeNodeIndex(H, g, node), node),
                                  g, index),
             status |-> "ok"]

(***************************************************************************)
(* removeEdge.                                                             *)
(***************************************************************************)
\* the first slot below bound at which array holds x, or -1
FirstSlotOf(array, bound, x) ==
    LET hits == {i \in 0..(bound - 1) : array[i] = x}
    IN IF hits = {} THEN -1
       ELSE CHOOSE i \in hits : \A j \in hits : i <= j

\* faulty variant: the source's outdegree is left as it was
removeOutEdge_keepDegree(H, edge) ==
    LET source == H.edges[edge].source
        S == H.nodes[source]
        counter == FirstSlotOf(H.arrs[S.out_edges], S.next_out_edge_index, edge)
    IN IF counter = -1 THEN H
       ELSE LET H1 == [H EXCEPT !.arrs[S.out_edges][counter] = NULL]
            IN IF counter = S.next_out_edge_index - 1
               THEN [H1 EXCEPT !.nodes[source].next_out_edge_index = @ - 1]
               ELSE push(H1, S.free_out_edge_slots, counter)

\* faulty variant: the slot is pushed also when it was the last one
removeOutEdge_pushAlways(H, edge) ==
    LET source == H.edges[edge].source
        S == H.nodes[source]
        counter == FirstSlotOf(H.arrs[S.out_edges], S.next_out_edge_index, edge)
    IN IF counter = -1 THEN H
       ELSE LET H1 == push([H EXCEPT !.arrs[S.out_edges][counter] = NULL,
                                     !.nodes[source].outdegree = @ - 1],
                           S.free_out_edge_slots, counter)
            IN IF counter = S.next_out_edge_index - 1
               THEN [H1 EXCEPT !.nodes[source].next_out_edge_index = @ - 1]
               ELSE H1

removeOutEdge(H, edge) ==
    LET source == H.edges[edge].source
        S == H.nodes[source]
        counter == FirstSlotOf(H.arrs[S.out_edges], S.next_out_edge_index, edge)
    IN IF counter = -1 THEN H
       ELSE LET H1 == [H EXCEPT !.arrs[S.out_edges][counter] = NULL,
                                !.nodes[source].outdegree = @ - 1]
            IN IF counter = S.next_out_edge_index - 1
               THEN [H1 EXCEPT !.nodes[source].next_out_edge_index = @ - 1]
               ELSE push(H1, S.free_out_edge_slots, counter)

\* faulty variant: the slot is pushed also when it was the last one
removeInEdge_pushAlways(H, edge) ==
    LET target == H.edges[edge].target
        T == H.nodes[target]
        counter == FirstSlotOf(H.arrs[T.in_edges], T.next_in_edge_index, edge)
    IN IF counter = -1 THEN H
       ELSE LET H1 == push([H EXCEPT !.arrs[T.in_edges][counter] = NULL,
                                     !.nodes[target].indegree = @ - 1],
                           T.free_in_edge_slots, counter)
            IN IF counter = T.next_in_edge_index - 1
               THEN [H1 EXCEPT !.nodes[target].next_in_edge_index = @ - 1]
               ELSE H1

removeInEdge(H, edge) ==
    LET target == H.edges[edge].target
        T == H.nodes[target]
        counter == FirstSlotOf(H.arrs[T.in_edges], T.next_in_edge_index, edge)
    IN IF counter = -1 THEN H
       ELSE LET H1 == [H EXCEPT !.arrs[T.in_edges][counter] = NULL,
                                !.nodes[target].indegree = @ - 1]
            IN IF counter = T.next_in_edge_index - 1
               THEN [H1 EXCEPT !.nodes[target].next_in_edge_index = @ - 1]
               ELSE push(H1, T.free_in_edge_slots, counter)

removeEdgeIndex(H, g, edge) ==
    LET label_key == H.edges[edge].label_class
        edge_list == g_slist_remove(
                        g_hash_table_lookup(H.graphs[g].edges_by_label, label_key),
                        edge)
    IN [H EXCEPT
          !.graphs[g].edges_by_label =
              IF edge_list = <<>> THEN g_hash_table_remove(@, label_key)
              ELSE g_hash_table_insert(@, label_key, edge_list)]

\* faulty variant: the index of the last slot is pushed as well
removeEdgeSlot_pushAlways(H, g, index) ==
    LET G  == H.graphs[g]
        H1 == push([H EXCEPT !.arrs[G.edges][index] = NULL], G.free_edge_slots, index)
        H2 == IF index = G.next_edge_index - 1
              THEN [H1 EXCEPT !.graphs[g].next_edge_index = @ - 1]
              ELSE H1
    IN [H2 EXCEPT !.graphs[g].number_of_edges = @ - 1]

removeEdgeSlot(H, g, index) ==
    LET G  == H.graphs[g]
        H1 == [H EXCEPT !.arrs[G.edges][index] = NULL]
        H2 == IF index = G.next_edge_index - 1
              THEN [H1 EXCEPT !.graphs[g].next_edge_index = @ - 1]
              ELSE push(H1, G.free_edge_slots, index)
    IN [H2 EXCEPT !.graphs[g].number_of_edges = @ - 1]

\* faulty variant: the edge stays in the in_edges array of its target
removeEdge_keepsInSlot(H, g, index) ==
    LET edge == getEdge(H, g, index)
        H1 == removeOutEdge(H, edge)
        H2 == removeEdgeIndex(H1, g, edge)
    IN removeEdgeSlot(freeEdge(H2, edge), g, index)

removeEdge(H, g, index) ==
    LET edge == getEdge(H, g, index)
        H1 == removeInEdge(removeOutEdge(H, edge), edge)
        H2 == removeEdgeIndex(H1, g, edge)
    IN removeEdgeSlot(freeEdge(H2, edge), g, index)

(***************************************************************************)
(* relabelNode and relabelEdge.                                            *)
(***************************************************************************)
\* faulty variant: a node that stops being a root stays on the root list
relabelNodeRoot_flagOnly(H, g, node) ==
    IF H.nodes[node].root
    THEN [H EXCEPT !.nodes[node].root = FALSE]
    ELSE [H EXCEPT !.nodes[node].root = TRUE,
                   !.graphs[g].root_nodes = g_slist_prepend(@, node)]

\* faulty variant: a node that stops being a root is not looked for in the
\* list, the head of the list is dropped
relabelNodeRoot_dropsHead(H, g, node) ==
    IF H.nodes[node].root
    THEN [H EXCEPT !.nodes[node].root = FALSE,
                   !.graphs[g].root_nodes = Tail(@)]
    ELSE [H EXCEPT !.nodes[node].root = TRUE,
                   !.graphs[g].root_nodes = g_slist_prepend(@, node)]

relabelNodeRoot(H, g, node) ==
    IF H.nodes[node].root
    THEN [H EXCEPT !.nodes[node].root = FALSE,
                   !.graphs[g].root_nodes = g_slist_remove(@, node)]
    ELSE [H EXCEPT !.nodes[node].root = TRUE,
                   !.graphs[g].root_nodes = g_slist_prepend(@, node)]

\* faulty variant: the node stays on the list of its old label class
relabelNodeIndex_keepOld(H, g, node, new_label_class) ==
    LET hash_key_2 == new_label_class
        t0 == H.graphs[g].nodes_by_label
        new_node_list == g_slist_prepend(g_hash_table_lookup(t0, hash_key_2), node)
    IN [H EXCEPT !.nodes[node].label_class = new_label_class,
                 !.graphs[g].nodes_by_label =
                     g_hash_table_insert(t0, hash_key_2, new_node_list)]

\* faulty variant: the list of the old label class is emptied
relabelNodeIndex_clearsOldList(H, g, node, new_label_class) ==
    LET hash_key_1 == H.nodes[node].label_class
        hash_key_2 == new_label_class
        t0 == H.graphs[g].nodes_by_label
        t1 == g_hash_table_insert(t0, hash_key_1, <<>>)
        new_node_list == g_slist_prepend(g_hash_table_lookup(t1, hash_key_2), node)
    IN [H EXCEPT !.nodes[node].label_class = new_label_class,
                 !.graphs[g].nodes_by_label =
                     g_hash_table_insert(t1, hash_key_2, new_node_list)]

\* the node moves from the list of its old label class to that of the new
relabelNodeIndex(H, g, node, new_label_class) ==
    LET hash_key_1 == H.nodes[node].label_class
        hash_key_2 == new_label_class
        t0 == H.graphs[g].nodes_by_label
        old_node_list == g_slist_remove(g_hash_table_lookup(t0, hash_key_1), node)
        t1 == g_hash_table_insert(t0, hash_key_1, old_node_list)
        new_node_list == g_slist_prepend(g_hash_table_lookup(t1, hash_key_2), node)
    IN [H EXCEPT !.nodes[node].label_class = new_label_class,
                 !.graphs[g].nodes_by_label =
                     g_hash_table_insert(t1, hash_key_2, new_node_list)]

\* faulty variant: change_label is tested after the label was replaced
relabelNode_labelBeforeTest(H, g, node, new_label, change_label, change_root) ==
    LET H1 == IF change_root THEN relabelNodeRoot(H, g, node) ELSE H
        H2 == IF H1.nodes[node].label # BlankAddr
              THEN freeLabel(H1, H1.nodes[node].label) ELSE H1
        H3 == [H2 EXCEPT !.nodes[node].label =
                  IF new_label = NULL THEN BlankAddr ELSE new_label]
        new_label_class == IF new_label = NULL THEN "EMPTY_L"
                           ELSE getLabelClass(H3.labels[new_label])
    IN IF ~change_label THEN H3
       ELSE IF H3.nodes[node].label_class # new_label_class
            THEN relabelNodeIndex(H3, g, node, new_label_class)
            ELSE H3

relabelNode(H, g, node, new_label, change_label, change_root) ==
    LET H1 == IF change_root THEN relabelNodeRoot(H, g, node) ELSE H
    IN IF ~change_label THEN H1
       ELSE LET H2 == IF H1.nodes[node].label # BlankAddr
                      THEN freeLabel(H1, H1.nodes[node].label) ELSE H1
                H3 == [H2 EXCEPT !.nodes[node].label =
                          IF new_label = NULL THEN BlankAddr ELSE new_label]
                new_label_class == IF new_label = NULL THEN "EMPTY_L"
                                   ELSE getLabelClass(H3.labels[new_label])
            IN IF H3.nodes[node].label_class # new_label_class
               THEN relabelNodeIndex(H3, g, node, new_label_class)
               ELSE H3

\* faulty variant: the edge is moved and its recorded class left as it was
relabelEdgeIndex_classNotRecorded(H, g, edge, new_label_class) ==
    LET hash_key_1 == H.edges[edge].label_class
        hash_key_2 == new_label_class
        t0 == H.graphs[g].edges_by_label
        old_edge_list == g_slist_remove(g_hash_table_lookup(t0, hash_key_1), edge)
        t1 == g_hash_table_insert(t0, hash_key_1, old_edge_list)
        new_edge_list == g_slist_prepend(g_hash_table_lookup(t1, hash_key_2), edge)
    IN [H EXCEPT !.graphs[g].edges_by_label =
                     g_hash_table_insert(t1, hash_key_2, new_edge_list)]

relabelEdgeIndex(H, g, edge, new_label_class) ==
    LET hash_key_1 == H.edges[edge].label_class
        hash_key_2 == new_label_class
        t0 == H.graphs[g].edges_by_label
        old_edge_list == g_slist_remove(g_hash_table_lookup(t0, hash_key_1), edge)
        t1 == g_hash_table_insert(t0, hash_key_1, old_edge_list)
        new_edge_list == g_slist_prepend(g_hash_table_lookup(t1, hash_key_2), edge)
    IN [H EXCEPT !.edges[edge].label_class = new_label_class,
                 !.graphs[g].edges_by_label =
                     g_hash_table_insert(t1, hash_key_2, new_edge_list)]

relabelEdge(H, g, edge, new_label, change_label, change_bidirectional) ==
    LET H1 == IF change_bidirectional
              THEN [H EXCEPT !.edges[edge].bidirectional = ~@] ELSE H
    IN IF ~change_label THEN H1
       ELSE LET H2 == IF H1.edges[edge].label # BlankAddr
                      THEN freeLabel(H1, H1.edges[edge].label) ELSE H1
                H3 == [H2 EXCEPT !.edges[edge].label =
                          IF new_label = NULL THEN BlankAddr ELSE new_label]
                new_label_class == IF new_label = NULL THEN "EMPTY_L"
                                   ELSE getLabelClass(H3.labels[new_label])
            IN IF H3.edges[edge].label_class # new_label_class
               THEN relabelEdgeIndex(H3, g, edge, new_label_class)
               ELSE H3

(***************************************************************************)
(* validGraph: TRUE iff no check of the walk over the store fails.         *)
(***************************************************************************)
InStack(H, s, slot) == \E i \in 1..Len(H.stks[s]) : H.stks[s][i] = slot

\* the checks made on the node at slot graph_index of the node array
validNodeSlot(H, g, graph_index) ==
    LET G == H.graphs[g]
        node == getNode(H, g, graph_index)
    IN IF node = NULL
       THEN \* invariant (1)
            InStack(H, G.free_node_slots, graph_index)
       ELSE LET N == H.nodes[node]
                outs == {i \in 0..(N.next_out_edge_index - 1) :
                            getOutEdge(H, node, i) # NULL}
                ins  == {i \in 0..(N.next_in_edge_index - 1) :
                            getInEdge(H, node, i) # NULL}
            IN \* invariant (5)
               /\ \A i \in (0..(N.next_out_edge_index - 1)) \ outs :
                      InStack(H, N.free_out_edge_slots, i)
               \* invariant (9)
               /\ \A i \in outs :
                      LET node_edge == getOutEdge(H, node, i)
                      IN node_edge = getEdge(H, g, H.edges[node_edge].index)
               \* invariant (6)
               /\ N.outdegree = Cardinality(outs)
               \* invariant (7)
               /\ \A i \in (0..(N.next_in_edge_index - 1)) \ ins :
                      InStack(H, N.free_in_edge_slots, i)
               \* invariant (9)
               /\ \A i \in ins :
                      LET node_edge == getInEdge(H, node, i)
                      IN node_edge = getEdge(H, g, H.edges[node_edge].index)
               \* invariant (8)
               /\ N.indegree = Cardinality(ins)
               \* invariant (12)
               /\ g_slist_find(getNodesByLabel(H, g, N.label_class), node)

\* the checks made on the edge at slot graph_index of the edge array; the
\* edge is looked for in the first outdegree slots of its source's out_edges
\* and in the first indegree slots of its target's in_edges
validEdgeSlot(H, g, graph_index) ==
    LET G == H.graphs[g]
        edge == getEdge(H, g, graph_index)
    IN IF edge = NULL
       THEN \* invariant (3)
            InStack(H, G.free_edge_slots, graph_index)
       ELSE LET source == getSource(H, edge)
                target == getTarget(H, edge)
            IN \* invariant (10)
               /\ source = getNode(H, g, H.nodes[source].index)
               \* invariant (11)
               /\ \E counter \in 0..(H.nodes[source].outdegree - 1) :
                      getOutEdge(H, source, counter) = edge
               \* invariant (10)
               /\ target = getNode(H, g, H.nodes[target].index)
               \* invariant (11)
               /\ \E counter \in 0..(H.nodes[target].indegree - 1) :
                      getInEdge(H, target, counter) = edge
               \* invariant (13)
               /\ g_slist_find(getEdgesByLabel(H, g, H.edges[edge].label_class),
                               edge)

validGraph(H, g) ==
    IF g = NULL
    THEN TRUE
    ELSE LET G == H.graphs[g] IN
         IF G.number_of_edges = 0 /\ G.number_of_nodes = 0
         THEN TRUE
         ELSE /\ \A i \in 0..(G.next_node_index - 1) : validNodeSlot(H, g, i)
              \* invariant (2)
              /\ Cardinality({i \in 0..(G.next_node_index - 1) :
                                 getNode(H, g, i) # NULL}) = G.number_of_nodes
              /\ \A i \in 0..(G.next_edge_index - 1) : validEdgeSlot(H, g, i)
              \* invariant (4)
              /\ Cardinality({i \in 0..(G.next_edge_index - 1) :
                                 getEdge(H, g, i) # NULL}) = G.number_of_edges

(***************************************************************************)
(* copyLabel and copyListElement.  An atom is copied by value; an atom of  *)
(* a type copyListElement does not handle is copied to NULL.               *)
(***************************************************************************)
NullAtom == Atom("NULL", 0, "", <<>>)

RECURSIVE copyListElement(_)
copyListElement(atom) ==
    CASE atom.type = "VARIABLE" -> Atom("VARIABLE", 0, atom.string, <<>>)
      [] atom.type = "INTEGER_CONSTANT" ->
             Atom("INTEGER_CONSTANT", atom.number, "", <<>>)
      [] atom.type \in {"CHARACTER_CONSTANT", "STRING_CONSTANT"} ->
             Atom(atom.type, 0, atom.string, <<>>)
      [] atom.type = "NEG" ->
             Atom("NEG", 0, "", <<copyListElement(atom.args[1])>>)
      [] atom.type = "CONCAT" ->
             Atom("CONCAT", 0, "",
                  <<copyListElement(atom.args[1]), copyListElement(atom.args[2])>>)
      [] OTHER -> NullAtom

\* Values a field of a malloc'ed Label can hold before it is assigned (any
\* value of the field's type can be there; these are the ones tried).
UninitMarks == {"NONE", "RED"}
UninitLengths == {0}
UninitFlags == {FALSE}
UninitLabelFields ==
    [mark : UninitMarks, list_length : UninitLengths,
     has_list_variable : UninitFlags]

\* uninit: the contents of the fields the copy of a label with a NULL list
\* never assigns
\* faulty variant: the copy refers to the label of the original
copyLabel_shallow(H, label, uninit) == [H |-> H, p |-> label]

copyLabel(H, label, uninit) ==
    IF label = BlankAddr THEN [H |-> H, p |-> BlankAddr]
    ELSE LET L == H.labels[label]
             label_copy ==
                 IF L.list = <<>>
                 THEN [mark |-> uninit.mark, list |-> <<>>,
                       list_length |-> uninit.list_length,
                       has_list_variable |-> uninit.has_list_variable]
                 ELSE [mark |-> L.mark,
                       list |-> [i \in 1..Len(L.list) |-> copyListElement(L.list[i])],
                       list_length |-> L.list_length,
                       has_list_variable |-> L.has_list_variable]
         IN makeLabel(H, label_copy)

(***************************************************************************)
(* copyGraph.  junk maps the address of every label to the contents its    *)
(* copy's unassigned fields would have.                                    *)
(***************************************************************************)
JunkOf(junk, label) ==
    IF label \in DOMAIN junk THEN junk[label]
    ELSE [mark |-> "NONE", list_length |-> 0, has_list_variable |-> FALSE]

\* first loop: the edges, by index, with their labels
RECURSIVE copyEdges(_, _, _, _, _)
copyEdges(H, graph, graph_copy, index, junk) ==
    IF index >= H.graphs[graph].next_edge_index THEN H
    ELSE LET edge == getEdge(H, graph, index) IN
         IF edge = NULL
         THEN copyEdges(push(H, H.graphs[graph_copy].free_edge_slots, index),
                        graph, graph_copy, index + 1, junk)
         ELSE LET edge_copy == FreshAddr(H.edges)
                  enter(l) ==
                      LET E  == [H.edges[edge] EXCEPT !.label = l.p]
                          C  == l.H.graphs[graph_copy]
                          edge_list ==
                              g_slist_prepend(
                                  g_hash_table_lookup(C.edges_by_label, E.label_class),
                                  edge_copy)
                      IN [l.H EXCEPT
                            !.edges = @ @@ (edge_copy :> E),
                            !.arrs[C.edges][index] = edge_copy,
                            !.graphs[graph_copy].edges_by_label =
                                g_hash_table_insert(@, E.label_class, edge_list)]
              IN copyEdges(enter(copyLabel(H, H.edges[edge].label,
                                           JunkOf(junk, H.edges[edge].label))),
                           graph, graph_copy, index + 1, junk)

\* the out_edges array of a node copy: a free slot for every NULL pointer,
\* else the copy of the edge, found by its index in the graph copy
RECURSIVE copyOutEdges(_, _, _, _, _)
copyOutEdges(H, graph_copy, node, node_copy, counter) ==
    IF counter >= H.nodes[node].next_out_edge_index THEN H
    ELSE LET edge == getOutEdge(H, node, counter) IN
         IF edge = NULL
         THEN copyOutEdges(push(H, H.nodes[node_copy].free_out_edge_slots, counter),
                           graph_copy, node, node_copy, counter + 1)
         ELSE LET edge_copy == getEdge(H, graph_copy, H.edges[edge].index)
              IN copyOutEdges(
                    [H EXCEPT !.arrs[H.nodes[node_copy].out_edges][counter] = edge_copy],
                    graph_copy, node, node_copy, counter + 1)

RECURSIVE copyInEdges(_, _, _, _, _)
copyInEdges(H, graph_copy, node, node_copy, counter) ==
    IF counter >= H.nodes[node].next_in_edge_index THEN H
    ELSE LET edge == getInEdge(H, node, counter) IN
         IF edge = NULL
         THEN copyInEdges(push(H, H.nodes[node_copy].free_in_edge_slots, counter),
                          graph_copy, node, node_copy, counter + 1)
         ELSE LET edge_copy == getEdge(H, graph_copy, H.edges[edge].index)
              IN copyInEdges(
                    [H EXCEPT !.arrs[H.nodes[node_copy].in_edges][counter] = edge_copy],
                    graph_copy, node, node_copy, counter + 1)

\* the copy of one node: the fields of the original, with a copy of the
\* label, new free-slot stacks and new incident edge arrays
copyNode(H, graph_copy, node, uninit) ==
    LET node_copy == FreshAddr(H.nodes)
        build(l, s1, s2, a1, a2) ==
            LET N == [H.nodes[node] EXCEPT !.label = l.p,
                                           !.free_out_edge_slots = s1.p,
                                           !.free_in_edge_slots = s2.p,
                                           !.out_edges = a1.p,
                                           !.in_edges = a2.p]
            IN [a2.H EXCEPT !.nodes = @ @@ (node_copy :> N)]
        arrays(l, s1, s2, a1) == build(l, s1, s2, a1, calloc(a1.H, MAX_INCIDENT_EDGES))
        stacks(l, s1, s2) == arrays(l, s1, s2, calloc(s2.H, MAX_INCIDENT_EDGES))
        labelled(l, s1) == stacks(l, s1, newStack(s1.H))
        fields(l) == labelled(l, newStack(l.H))
        H1 == fields(copyLabel(H, H.nodes[node].label, uninit))
        H2 == copyOutEdges(H1, graph_copy, node, node_copy, 0)
    IN [H |-> copyInEdges(H2, graph_copy, node, node_copy, 0), p |-> node_copy]

\* second loop: the nodes, by index
RECURSIVE copyNodes(_, _, _, _, _)
copyNodes(H, graph, graph_copy, index, junk) ==
    IF index >= H.graphs[graph].next_node_index THEN H
    ELSE LET node == getNode(H, graph, index) IN
         IF node = NULL
         THEN copyNodes(push(H, H.graphs[graph_copy].free_node_slots, index),
                        graph, graph_copy, index + 1, junk)
         ELSE LET enter(c) ==
                      LET N  == c.H.nodes[c.p]
                          C  == c.H.graphs[graph_copy]
                          node_list ==
                              g_slist_prepend(
                                  g_hash_table_lookup(C.nodes_by_label, N.label_class),
                                  c.p)
                      IN [c.H EXCEPT
                            !.arrs[C.nodes][index] = c.p,
                            !.graphs[graph_copy].nodes_by_label =
                                g_hash_table_insert(@, N.label_class, node_list),
                            !.graphs[graph_copy].root_nodes =
                                IF N.root THEN g_slist_prepend(@, c.p) ELSE @]
              IN copyNodes(enter(copyNode(H, graph_copy, node,
                                          JunkOf(junk, H.nodes[node].label))),
                           graph, graph_copy, index + 1, junk)

\* third loop: the source and target of every slot of the copy's edge array
\* below next_edge_index are redirected to the node copies; the loop reads
\* the edge of an empty slot through a NULL pointer
CopyDereferencesNull(H, graph_copy) ==
    \E index \in 0..(H.graphs[graph_copy].next_edge_index - 1) :
        getEdge(H, graph_copy, index) = NULL

RECURSIVE copyEndpoints(_, _, _)
copyEndpoints(H, graph_copy, index) ==
    IF index >= H.graphs[graph_copy].next_edge_index THEN H
    ELSE LET edge_copy == getEdge(H, graph_copy, index)
             source == getSource(H, edge_copy)
             source_copy == getNode(H, graph_copy, H.nodes[source].index)
             target == getTarget(H, edge_copy)
             target_copy == getNode(H, graph_copy, H.nodes[target].index)
         IN copyEndpoints([H EXCEPT !.edges[edge_copy].source = source_copy,
                                    !.edges[edge_copy].target = target_copy],
                          graph_copy, index + 1)

\* the result: the heap, the graph copy, and whether the call ran to its end
copyGraph(H, graph, junk) ==
    LET G == H.graphs[graph]
        sized(g) ==
            [g.H EXCEPT !.graphs[g.p].next_node_index = G.next_node_index,
                        !.graphs[g.p].next_edge_index = G.next_edge_index,
                        !.graphs[g.p].number_of_nodes = G.number_of_nodes,
                        !.graphs[g.p].number_of_edges = G.number_of_edges]
        redirect(H3, graph_copy) ==
            IF CopyDereferencesNull(H3, graph_copy)
            THEN [H |-> H3, p |-> graph_copy, status |-> "crash"]
            ELSE [H |-> copyEndpoints(H3, graph_copy, 0), p |-> graph_copy,
                  status |-> "ok"]
        fill(g) ==
            redirect(copyNodes(copyEdges(sized(g), graph, g.p, 0, junk),
                               graph, g.p, 0, junk),
                     g.p)
    IN fill(newGraph(H))

(***************************************************************************)
(* freeGraph and restoreGraph.                                             *)
(***************************************************************************)
RECURSIVE freeNodes(_, _, _)
freeNodes(H, graph, index) ==
    IF index >= H.graphs[graph].next_node_index THEN H
    ELSE freeNodes(freeNode(H, H.arrs[H.graphs[graph].nodes][index]),
                   graph, index + 1)

RECURSIVE freeEdges(_, _, _)
freeEdges(H, graph, index) ==
    IF index >= H.graphs[graph].next_edge_index THEN H
    ELSE freeEdges(freeEdge(H, H.arrs[H.graphs[graph].edges][index]),
                   graph, index + 1)

freeGraph(H, graph) ==
    IF graph = NULL THEN H
    ELSE LET G  == H.graphs[graph]
             H1 == freeNodes(H, graph, 0)
             H2 == [H1 EXCEPT !.arrs = Release(@, G.nodes)]
             H3 == freeEdges(H2, graph, 0)
             H4 == [H3 EXCEPT !.arrs = Release(@, G.edges)]
             H5 == freeStack(freeStack(H4, G.free_node_slots), G.free_edge_slots)
         IN [H5 EXCEPT !.graphs = Release(@, graph)]

\* the graph on top of the graph stack replaces the graph passed
restoreGraph(H, stack, graph) ==
    LET H1 == freeGraph(H, graph)
        top == pop(H1, stack)
    IN [H |-> top.H, output |-> top.data]

\* freeGraphStack frees the graphs on the stack, top first, and the stack;
\* it has the stack as a parameter and assigns nothing to graph_stack
RECURSIVE freeGraphs(_, _)
freeGraphs(H, graphs) ==
    IF graphs = <<>> THEN H
    ELSE freeGraphs(IF Head(graphs) # NULL THEN freeGraph(H, Head(graphs)) ELSE H,
                    Tail(graphs))

freeGraphStack(H, stack) == freeStack(freeGraphs(H, H.stks[stack]), stack)

(***************************************************************************)
(* The labels the callers pass: 0 stands for NULL, k > 0 for a Label       *)
(* object allocated by the caller with the value InputLabels[k].           *)
(***************************************************************************)
InputLabels ==
    << Label("NONE", <<IntAtom(1)>>, FALSE),
       Label("RED", <<>>, FALSE) >>

LabelArgs == 0..Len(InputLabels)
\* the labels passed for edges
EdgeLabelArgs == 0..1

passLabel(H, k) ==
    IF k = 0 THEN [H |-> H, p |-> NULL] ELSE makeLabel(H, InputLabels[k])

(***************************************************************************)
(* Handles of a graph.                                                     *)
(***************************************************************************)
NodeSlots(H, g) == 0..(H.graphs[g].next_node_index - 1)
EdgeSlots(H, g) == 0..(H.graphs[g].next_edge_index - 1)

LiveNodeSlots(H, g) == {i \in NodeSlots(H, g) : H.arrs[H.graphs[g].nodes][i] # NULL}
LiveEdgeSlots(H, g) == {i \in EdgeSlots(H, g) : H.arrs[H.graphs[g].edges][i] # NULL}

LiveNodes(H, g) == {H.arrs[H.graphs[g].nodes][i] : i \in LiveNodeSlots(H, g)}
LiveEdges(H, g) == {H.arrs[H.graphs[g].edges][i] : i \in LiveEdgeSlots(H, g)}

\* an insertion into the container stays within the array
HasRoom(H, stack, next, capacity) == H.stks[stack] # <<>> \/ next < capacity

(***************************************************************************)
(* The OILR prototype (unnamed/part_000).  Its memory is an array of       *)
(* words, a long or a pointer each; NULL is 0 and a pointer is the address *)
(* of a word.  The global g has its index list idx[0] at IdxList           *)
(* (signature(n) is 0 for every node); the Nodges of g.pool follow, each   *)
(* of NodgeWords words.  Node, Edge and the free pointer of a Nodge are    *)
(* the members of a union and share the words of the Nodge:                *)
(*    Node  loops 0, matchedLoops 1, index 2..5, outEdges 6..9,            *)
(*          inEdges 10..13                                                 *)
(*    Edge  matched 0, src 1, tgt 2, outList 3..6, inList 7..10            *)
(*    free  0                                                              *)
(* and a DList is the four words data, head, next, prev.  g is a global    *)
(* and starts as zeroes; the pool comes from malloc and holds whatever the *)
(* allocation held, fresh in every word.  The state S of the program is    *)
(* mem, g.freeId, g.freeList and ok, which a write through a pointer to no *)
(* word of the program, or exit(1), ends; nodes and edges are the          *)
(* addresses handed out by addNode and addEdge and not deleted since, and  *)
(* listed the list elements prepended and not removed, last first.         *)
(* fresh is the word malloc left all over the pool.                        *)
(***************************************************************************)
IdxList == 4
NodgeWords == 14
PoolAt(id) == 16 * (id + 1)

data == 0
head == 1
nextElem == 2
prevElem == 3

loops == 0
chainFor(n) == n + 2
outListFor(n) == n + 6
inListFor(n) == n + 10
src == 1
tgt == 2
outChain(e) == e + 3
inChain(e) == e + 7
free == 0

\* a value of fresh memory that is neither 0 nor the address of a word
Junk == -1

main(fresh) ==
    [mem |-> [a \in (IdxList..(IdxList + 3))
                      \cup UNION {PoolAt(id)..(PoolAt(id) + NodgeWords - 1) :
                                     id \in 0..(MaxPool - 1)} |->
                 IF a < PoolAt(0) THEN 0 ELSE fresh],
     freeId |-> 0, freeList |-> 0, ok |-> TRUE, fresh |-> fresh,
     nodes |-> {}, edges |-> {}, listed |-> <<>>]

\* *a = v
wr(S, a, v) ==
    IF ~S.ok THEN S
    ELSE IF a \notin DOMAIN S.mem THEN [S EXCEPT !.ok = FALSE]
    ELSE [S EXCEPT !.mem[a] = v]

\* *a, for the pointers the program reads through
rd(S, a) == IF a \in DOMAIN S.mem THEN S.mem[a] ELSE Junk

\* dl->data.count += by
counted(S, dl, by) == wr(S, dl + data, rd(S, dl + data) + by)

\* faulty variant: the element that was first is not told of the new one
prependElem_noBackLink(S, dl, elem) ==
    counted(wr(wr(wr(wr(S, elem + head, dl), elem + prevElem, 0),
                  elem + nextElem, rd(S, dl + nextElem)),
               dl + nextElem, elem),
            dl, 1)

prependElem(S, dl, elem) ==
    LET linked(S1, nx) ==
            counted(wr(IF nx # 0 THEN wr(S1, rd(S1, dl + nextElem) + prevElem, elem)
                                 ELSE S1,
                       dl + nextElem, elem),
                    dl, 1)
    IN linked(wr(wr(wr(S, elem + head, dl), elem + prevElem, 0),
                 elem + nextElem, rd(S, dl + nextElem)),
              rd(S, dl + nextElem))

removeElem(S, elem) ==
    LET unlinked(dl, nx, pv) ==
            counted(wr(wr(wr(wr(S, IF nx # 0 THEN nx + prevElem ELSE dl + prevElem, pv),
                              IF pv # 0 THEN pv + nextElem ELSE dl + nextElem, nx),
                           elem + nextElem, 0),
                        elem + prevElem, 0),
                    dl, -1)
    IN unlinked(rd(S, elem + head), rd(S, elem + nextElem), rd(S, elem + prevElem))

freeNodge(S, ne) == [wr(S, ne + free, S.freeList) EXCEPT !.freeList = ne]

indexNode(S, n) == prependElem(S, IdxList, chainFor(n))

unindexNode(S, n) == removeElem(S, chainFor(n))

\* the Nodge allocNodge returns, and the state it leaves
allocated(S) == IF S.freeList = 0 THEN PoolAt(S.freeId) ELSE S.freeList

allocNodge(S) ==
    IF S.freeList = 0 THEN [S EXCEPT !.freeId = @ + 1]
    ELSE [S EXCEPT !.freeList = rd(S, S.freeList + free)]

oilr_addNode(S) ==
    LET added(n) == indexNode(wr(allocNodge(S), chainFor(n) + data, n), n)
    IN added(allocated(S))

oilr_addEdge(S, source, target) ==
    LET added(e) ==
            indexNode(
              indexNode(
                wr(wr(wr(wr(
                  prependElem(
                    prependElem(
                      unindexNode(unindexNode(allocNodge(S), source), target),
                      outListFor(source), outChain(e)),
                    inListFor(target), inChain(e)),
                  e + src, source), e + tgt, target),
                  outChain(e) + data, e), inChain(e) + data, e),
                source),
              target)
    IN added(allocated(S))

\* deleteNode stops the program with "Dangling condition violated" when the
\* degrees and the loop count do not add up to 0
deleteNodeExits(S, n) ==
    rd(S, inListFor(n) + data) + rd(S, outListFor(n) + data) + rd(S, n + loops) # 0

oilr_deleteNode(S, n) ==
    IF deleteNodeExits(S, n) THEN [S EXCEPT !.ok = FALSE]
    ELSE freeNodge(unindexNode(S, n), n)

oilr_deleteEdge(S, e) ==
    LET deleted(source, target) ==
            indexNode(
              indexNode(
                freeNodge(
                  removeElem(
                    removeElem(unindexNode(unindexNode(S, source), target),
                               outChain(e)),
                    inChain(e)),
                  e),
                source),
              target)
    IN deleted(rd(S, e + src), rd(S, e + tgt))

(***************************************************************************)
(* What the querying functions show of a graph: for every index of a live  *)
(* node or edge its flags, degrees, label class, label, endpoints and      *)
(* incident edges (by index), and the indices of the root nodes.           *)
(***************************************************************************)
ObserveLabel(H, label) == [mark |-> H.labels[label].mark, list |-> H.labels[label].list]

ObserveNode(H, node) ==
    LET N == H.nodes[node] IN
    [root |-> N.root, indegree |-> N.indegree, outdegree |-> N.outdegree,
     label_class |-> N.label_class, label |-> ObserveLabel(H, N.label),
     out |-> {H.edges[getOutEdge(H, node, i)].index :
                 i \in {j \in 0..(N.next_out_edge_index - 1) :
                           getOutEdge(H, node, j) # NULL}},
     in  |-> {H.edges[getInEdge(H, node, i)].index :
                 i \in {j \in 0..(N.next_in_edge_index - 1) :
                           getInEdge(H, node, j) # NULL}}]

ObserveEdge(H, edge) ==
    LET E == H.edges[edge] IN
    [bidirectional |-> E.bidirectional,
     source |-> H.nodes[getSource(H, edge)].index,
     target |-> H.nodes[getTarget(H, edge)].index,
     label_class |-> E.label_class, label |-> ObserveLabel(H, E.label)]

Observe(H, g) ==
    [nodes |-> [i \in LiveNodeSlots(H, g) |-> ObserveNode(H, getNode(H, g, i))],
     edges |-> [i \in LiveEdgeSlots(H, g) |-> ObserveEdge(H, getEdge(H, g, i))],
     roots |-> {H.nodes[getRootNodes(H, g)[i]].index :
                   i \in 1..Len(getRootNodes(H, g))}]

(***************************************************************************)
(* The storage of a graph: the addresses reached from the Graph structure, *)
(* without the static blank_label, and the objects stored there.           *)
(***************************************************************************)
Range(seq) == {seq[i] : i \in DOMAIN seq}

Storage(H, g) ==
    LET G == H.graphs[g]
        listed(table) == UNION {Range(table[c]) : c \in DOMAIN table}
        held(array) == IF array \in DOMAIN H.arrs
                       THEN Range(H.arrs[array]) \ {NULL} ELSE {}
        edges0 == held(G.edges) \cup listed(G.edges_by_label)
        nodes0 == held(G.nodes) \cup listed(G.nodes_by_label) \cup Range(G.root_nodes)
        nodes == nodes0 \cup UNION {{H.edges[e].source, H.edges[e].target} :
                                       e \in edges0 \cap DOMAIN H.edges}
        N(n) == H.nodes[n]
        known == nodes \cap DOMAIN H.nodes
        edges == edges0 \cup UNION {held(N(n).out_edges) \cup held(N(n).in_edges) :
                                       n \in known}
    IN [graphs |-> {g},
        nodes  |-> nodes,
        edges  |-> edges,
        labels |-> ({N(n).label : n \in known}
                      \cup {H.edges[e].label : e \in edges \cap DOMAIN H.edges})
                    \ {BlankAddr},
        arrs   |-> {G.nodes, G.edges}
                    \cup UNION {{N(n).out_edges, N(n).in_edges} : n \in known},
        stks   |-> {G.free_node_slots, G.free_edge_slots}
                    \cup UNION {{N(n).free_out_edge_slots, N(n).free_in_edge_slots} :
                                   n \in known}]

Disjoint(S, T) ==
    /\ S.graphs \cap T.graphs = {}
    /\ S.nodes \cap T.nodes = {}
    /\ S.edges \cap T.edges = {}
    /\ S.labels \cap T.labels = {}
    /\ S.arrs \cap T.arrs = {}
    /\ S.stks \cap T.stks = {}

Stored(f, addresses) == [a \in addresses \cap DOMAIN f |-> f[a]]

Image(H, g) ==
    LET S == Storage(H, g) IN
    [graphs |-> Stored(H.graphs, S.graphs),
     nodes  |-> Stored(H.nodes, S.nodes),
     edges  |-> Stored(H.edges, S.edges),
     labels |-> Stored(H.labels, S.labels),
     arrs   |-> Stored(H.arrs, S.arrs),
     stks   |-> Stored(H.stks, S.stks)]

(***************************************************************************)
(* State and operations.  heap, host (the working graph) and graph_stack   *)
(* are the program's; last records the last call and its outcome, run the  *)
(* number of restoreGraph calls in a row it ends; snapObs records, for     *)
(* every graph on the graph stack, what the working graph showed when it   *)
(* was copied (obs) and what the copy's storage held when it was pushed    *)
(* (image), and expected what the last restoreGraph was to bring back.     *)
(***************************************************************************)
Op(op, status, run) == [op |-> op, status |-> status, run |-> run]

NoObs == [nodes |-> <<>>, edges |-> <<>>, roots |-> {}]

Init ==
    LET g == newGraph(EmptyHeap) IN
    /\ heap = g.H
    /\ host = g.p
    /\ graph_stack = NULL
    /\ crashed = FALSE
    /\ last = Op("newGraph", "ok", 0)
    /\ nops = 0
    /\ snapObs = <<>>
    /\ expected = NoObs
    /\ yyin = <<>>
    /\ tokens = <<>>
    /\ oilr = main(0)

Step(bound) ==
    ~crashed /\ nops < bound /\ nops' = nops + 1 /\ UNCHANGED <<yyin, tokens, oilr>>

Unsnapped == UNCHANGED <<host, graph_stack, crashed, snapObs>> /\ expected' = NoObs

AddNode(root, k) ==
    /\ HasRoom(heap, heap.graphs[host].free_node_slots,
               heap.graphs[host].next_node_index, MAX_NODES)
    /\ LET l == passLabel(heap, k)
           n == newNode(l.H, root, l.p)
       IN heap' = addNode(n.H, host, n.p)
    /\ last' = Op("addNode", "ok", 0)
    /\ Unsnapped

AddEdge(bidirectional, k, source, target) ==
    /\ HasRoom(heap, heap.graphs[host].free_edge_slots,
               heap.graphs[host].next_edge_index, MAX_EDGES)
    /\ HasRoom(heap, heap.nodes[source].free_out_edge_slots,
               heap.nodes[source].next_out_edge_index, MAX_INCIDENT_EDGES)
    /\ HasRoom(heap, heap.nodes[target].free_in_edge_slots,
               heap.nodes[target].next_in_edge_index, MAX_INCIDENT_EDGES)
    /\ LET l == passLabel(heap, k)
           e == newEdge(l.H, bidirectional, l.p, source, target)
       IN heap' = addEdge(e.H, host, e.p)
    /\ last' = Op("addEdge", "ok", 0)
    /\ Unsnapped

RemoveNode(index) ==
    /\ LET r == removeNode(heap, host, index)
       IN /\ heap' = r.H
          /\ last' = Op("removeNode", r.status, 0)
    /\ Unsnapped

RemoveEdge(index) ==
    /\ heap' = removeEdge(heap, host, index)
    /\ last' = Op("removeEdge", "ok", 0)
    /\ Unsnapped

RelabelNode(node, k, change_label, change_root) ==
    /\ LET l == passLabel(heap, k)
       IN heap' = relabelNode(l.H, host, node, l.p, change_label, change_root)
    /\ last' = Op("relabelNode", "ok", 0)
    /\ Unsnapped

RelabelEdge(edge, k, change_label, change_bidirectional) ==
    /\ LET l == passLabel(heap, k)
       IN heap' = relabelEdge(l.H, host, edge, l.p, change_label,
                              change_bidirectional)
    /\ last' = Op("relabelEdge", "ok", 0)
    /\ Unsnapped

\* The operations called with a Label object the caller has built; the
\* status is what getLabelClass wrote to the log while the label was classified.
Classified(label) ==
    IF getLabelClassLogsTooLong(label) THEN "logged-too-long" ELSE "ok"

AddLabelledNode(label) ==
    /\ HasRoom(heap, heap.graphs[host].free_node_slots,
               heap.graphs[host].next_node_index, MAX_NODES)
    /\ LET l == makeLabel(heap, label)
           n == newNode(l.H, FALSE, l.p)
       IN heap' = addNode(n.H, host, n.p)
    /\ last' = Op("addNode", Classified(label), 0)
    /\ Unsnapped

AddLabelledEdge(label, source, target) ==
    /\ HasRoom(heap, heap.graphs[host].free_edge_slots,
               heap.graphs[host].next_edge_index, MAX_EDGES)
    /\ HasRoom(heap, heap.nodes[source].free_out_edge_slots,
               heap.nodes[source].next_out_edge_index, MAX_INCIDENT_EDGES)
    /\ HasRoom(heap, heap.nodes[target].free_in_edge_slots,
               heap.nodes[target].next_in_edge_index, MAX_INCIDENT_EDGES)
    /\ LET l == makeLabel(heap, label)
           e == newEdge(l.H, FALSE, l.p, source, target)
       IN heap' = addEdge(e.H, host, e.p)
    /\ last' = Op("addEdge", Classified(label), 0)
    /\ Unsnapped

RelabelLabelledNode(node, label) ==
    /\ LET l == makeLabel(heap, label)
       IN heap' = relabelNode(l.H, host, node, l.p, TRUE, FALSE)
    /\ last' = Op("relabelNode", Classified(label), 0)
    /\ Unsnapped

RelabelLabelledEdge(edge, label) ==
    /\ LET l == makeLabel(heap, label)
       IN heap' = relabelEdge(l.H, host, edge, l.p, TRUE, FALSE)
    /\ last' = Op("relabelEdge", Classified(label), 0)
    /\ Unsnapped

\* what getNode, getEdge, getOutEdge and getInEdge do with an index, next
\* being the array's next index and capacity its allocated size: the error
\* is logged for index > next alone; any other index is read from the array
getterOutcome(index, next, capacity) ==
    IF index > next THEN "out-of-range"
    ELSE IF index < next THEN "read-below-next"
    ELSE IF index < capacity THEN "read-at-next"
    ELSE "read-past-array"

\* a call of a querying function; a read past the end of the array may or
\* may not stop the program
Query(name, index, next, capacity) ==
    /\ last' = Op(name, getterOutcome(index, next, capacity), 0)
    /\ IF getterOutcome(index, next, capacity) = "read-past-array"
       THEN crashed' \in BOOLEAN ELSE crashed' = FALSE
    /\ expected' = NoObs
    /\ UNCHANGED <<heap, host, graph_stack, snapObs>>

GetNode(index) ==
    Query("getNode", index, heap.graphs[host].next_node_index, MAX_NODES)

GetEdge(index) ==
    Query("getEdge", index, heap.graphs[host].next_edge_index, MAX_EDGES)

GetOutEdge(node, index) ==
    Query("getOutEdge", index, heap.nodes[node].next_out_edge_index,
          MAX_INCIDENT_EDGES)

GetInEdge(node, index) ==
    Query("getInEdge", index, heap.nodes[node].next_in_edge_index,
          MAX_INCIDENT_EDGES)

\* removeNode reads node->indegree and removeEdge reads edge->source with no
\* test of the pointer that getNode or getEdge returned
RemoveNodeDereferencesNull(H, g, index) == getNode(H, g, index) = NULL
RemoveEdgeDereferencesNull(H, g, index) == getEdge(H, g, index) = NULL

\* removeNode called with the index of an empty slot
RemoveEmptyNode(index) ==
    /\ RemoveNodeDereferencesNull(heap, host, index)
    /\ crashed' = TRUE
    /\ last' = Op("removeNode", "crash", 0)
    /\ expected' = NoObs
    /\ UNCHANGED <<heap, host, graph_stack, snapObs>>

\* removeEdge called with the index of an empty slot
RemoveEmptyEdge(index) ==
    /\ RemoveEdgeDereferencesNull(heap, host, index)
    /\ crashed' = TRUE
    /\ last' = Op("removeEdge", "crash", 0)
    /\ expected' = NoObs
    /\ UNCHANGED <<heap, host, graph_stack, snapObs>>

\* the labels of the graph whose copies have unassigned fields
UninitLabels(H, g) ==
    {l \in {H.nodes[n].label : n \in LiveNodes(H, g)}
             \cup {H.edges[e].label : e \in LiveEdges(H, g)} :
        l # BlankAddr /\ H.labels[l].list = <<>>}

CopyGraph(junk) ==
    /\ IF graph_stack = NULL THEN TRUE
       ELSE Len(heap.stks[graph_stack]) < MaxSnapshots
    /\ LET pushed(H2, stack, graph_copy) ==
               /\ heap' = H2
               /\ graph_stack' = stack
               /\ snapObs' = <<[obs |-> Observe(heap, host),
                                image |-> Image(H2, graph_copy),
                                printed |-> printGraph(heap, host)]>> \o snapObs
               /\ last' = Op("copyGraph", "ok", 0)
               /\ UNCHANGED crashed
           onto(s, graph_copy) == pushed(push(s.H, s.p, graph_copy), s.p, graph_copy)
           returned(c) ==
               IF c.status = "crash"
               THEN /\ heap' = c.H
                    /\ crashed' = TRUE
                    /\ last' = Op("copyGraph", "crash", 0)
                    /\ UNCHANGED <<graph_stack, snapObs>>
               ELSE onto(IF graph_stack = NULL THEN newStack(c.H)
                         ELSE [H |-> c.H, p |-> graph_stack],
                         c.p)
       IN returned(copyGraph(heap, host, junk))
    /\ expected' = NoObs
    /\ UNCHANGED host

RestoreGraph ==
    /\ graph_stack # NULL
    /\ heap.stks[graph_stack] # <<>>
    /\ LET r == restoreGraph(heap, graph_stack, host)
       IN /\ heap' = r.H
          /\ host' = r.output
    /\ expected' = Head(snapObs).obs
    /\ snapObs' = Tail(snapObs)
    /\ last' = Op("restoreGraph", "ok", last.run + 1)
    /\ UNCHANGED <<graph_stack, crashed>>

(***************************************************************************)
(* Spec: the graph operations, called with live handles and indices.       *)
(***************************************************************************)
Next ==
    \/ \E root \in BOOLEAN, k \in LabelArgs : Step(MaxOps) /\ AddNode(root, k)
    \/ \E k \in EdgeLabelArgs :
           \E s \in LiveNodes(heap, host), t \in LiveNodes(heap, host) :
               Step(MaxOps) /\ AddEdge(FALSE, k, s, t)
    \/ \E i \in LiveNodeSlots(heap, host) : Step(MaxOps) /\ RemoveNode(i)
    \/ \E i \in LiveEdgeSlots(heap, host) : Step(MaxOps) /\ RemoveEdge(i)
    \/ \E n \in LiveNodes(heap, host), cl \in BOOLEAN, cr \in BOOLEAN :
           \E k \in (IF cl THEN LabelArgs ELSE {0}) :
               Step(MaxOps) /\ RelabelNode(n, k, cl, cr)
    \/ \E e \in LiveEdges(heap, host), cl \in BOOLEAN, cb \in BOOLEAN :
           \E k \in (IF cl THEN EdgeLabelArgs ELSE {0}) :
               Step(MaxOps) /\ RelabelEdge(e, k, cl, cb)

Spec == Init /\ [][Next]_vars

(***************************************************************************)
(* SpecSnap: the graph operations with copyGraph and restoreGraph.         *)
(***************************************************************************)
NextSnap ==
    \/ \E a \in {<<TRUE, 0>>, <<FALSE, 2>>} : Step(MaxSnapOps) /\ AddNode(a[1], a[2])
    \/ \E s \in LiveNodes(heap, host), t \in LiveNodes(heap, host) :
           Step(MaxSnapOps) /\ AddEdge(FALSE, 1, s, t)
    \/ \E i \in LiveNodeSlots(heap, host) : Step(MaxSnapOps) /\ RemoveNode(i)
    \/ \E i \in LiveEdgeSlots(heap, host) : Step(MaxSnapOps) /\ RemoveEdge(i)
    \/ \E n \in LiveNodes(heap, host) : Step(MaxSnapOps) /\ RelabelNode(n, 1, TRUE, FALSE)
    \/ \E e \in LiveEdges(heap, host) : Step(MaxSnapOps) /\ RelabelEdge(e, 0, TRUE, TRUE)
    \/ \E junk \in [UninitLabels(heap, host) -> UninitLabelFields] :
           Step(MaxSnapOps) /\ CopyGraph(junk)
    \/ Step(MaxSnapOps) /\ RestoreGraph

SpecSnap == Init /\ [][NextSnap]_vars

(***************************************************************************)
(* SpecRoot: the node operations with every combination of the flags of    *)
(* relabelNode, and copyGraph and restoreGraph.                            *)
(***************************************************************************)
NextRoot ==
    \/ \E root \in BOOLEAN, k \in EdgeLabelArgs :
           Step(MaxSnapOps) /\ AddNode(root, k)
    \/ \E i \in LiveNodeSlots(heap, host) : Step(MaxSnapOps) /\ RemoveNode(i)
    \/ \E n \in LiveNodes(heap, host), cl \in BOOLEAN, cr \in BOOLEAN :
           \E k \in (IF cl THEN EdgeLabelArgs ELSE {0}) :
               Step(MaxSnapOps) /\ RelabelNode(n, k, cl, cr)
    \/ \E junk \in [UninitLabels(heap, host) -> UninitLabelFields] :
           Step(MaxSnapOps) /\ CopyGraph(junk)
    \/ Step(MaxSnapOps) /\ RestoreGraph

SpecRoot == Init /\ [][NextRoot]_vars

(***************************************************************************)
(* SpecSlots: long sequences of insertions and removals of nodes and edges *)
(* with blank labels.                                                      *)
(***************************************************************************)
NextSlots ==
    \/ Step(MaxSlotOps) /\ AddNode(FALSE, 0)
    \/ \E s \in LiveNodes(heap, host), t \in LiveNodes(heap, host) :
           Step(MaxSlotOps) /\ AddEdge(FALSE, 0, s, t)
    \/ \E i \in LiveNodeSlots(heap, host) : Step(MaxSlotOps) /\ RemoveNode(i)
    \/ \E i \in LiveEdgeSlots(heap, host) : Step(MaxSlotOps) /\ RemoveEdge(i)

SpecSlots == Init /\ [][NextSlots]_vars

(***************************************************************************)
(* SpecMisuse: insertions and removals with blank labels, removals called  *)
(* with the index of an empty slot, and the querying functions called with *)
(* every index up to the capacity of the array.                            *)
(***************************************************************************)
NextMisuse ==
    \/ Step(MaxSlotOps) /\ AddNode(FALSE, 0)
    \/ \E s \in LiveNodes(heap, host), t \in LiveNodes(heap, host) :
           Step(MaxSlotOps) /\ AddEdge(FALSE, 0, s, t)
    \/ \E i \in LiveNodeSlots(heap, host) : Step(MaxSlotOps) /\ RemoveNode(i)
    \/ \E i \in LiveEdgeSlots(heap, host) : Step(MaxSlotOps) /\ RemoveEdge(i)
    \/ \E i \in NodeSlots(heap, host) \ LiveNodeSlots(heap, host) :
           Step(MaxSlotOps) /\ RemoveEmptyNode(i)
    \/ \E i \in EdgeSlots(heap, host) \ LiveEdgeSlots(heap, host) :
           Step(MaxSlotOps) /\ RemoveEmptyEdge(i)
    \/ \E i \in 0..MAX_NODES : Step(MaxSlotOps) /\ GetNode(i)
    \/ \E i \in 0..MAX_EDGES : Step(MaxSlotOps) /\ GetEdge(i)
    \/ \E n \in LiveNodes(heap, host), i \in 0..MAX_INCIDENT_EDGES :
           Step(MaxSlotOps) /\ GetOutEdge(n, i)
    \/ \E n \in LiveNodes(heap, host), i \in 0..MAX_INCIDENT_EDGES :
           Step(MaxSlotOps) /\ GetInEdge(n, i)

SpecMisuse == Init /\ [][NextMisuse]_vars

(***************************************************************************)
(* The lexer (lexer.l), in its INITIAL start condition, on texts over the  *)
(* characters of LexChars.  yyin is the text not yet read; tokens are the  *)
(* tokens yylex has returned, each with the text matched (yytext) and the  *)
(* mark it left in yylval.  The rules are those that match a text over     *)
(* LexChars, in the order of the file: every other keyword has a letter    *)
(* outside LexChars, and every character of LexChars begins a match of an  *)
(* earlier rule than the last one (an invalid symbol).  A flex pattern     *)
(* outside quotes is a regular expression: any+ is a, n and one or more y. *)
(* The scanner takes the rule with the longest match, and of those the     *)
(* first in the file.                                                      *)
(***************************************************************************)
LexChars == {"a", "n", "y", "+", " "}

Inputs == UNION {[1..n -> LexChars] : n \in 0..MaxInput}

\* the characters at the head of text that are in set, at most limit of them
RECURSIVE Leading(_, _, _)
Leading(text, set, limit) ==
    IF limit = 0 \/ text = <<>> THEN 0
    ELSE IF Head(text) \in set THEN 1 + Leading(Tail(text), set, limit - 1)
    ELSE 0

\* the length of the match of a string of characters, 0 without a match
Literal(string, text) ==
    IF Len(text) >= Len(string) /\ SubSeq(text, 1, Len(string)) = string
    THEN Len(string) ELSE 0

\* any+ : "an", then y once or more
anyPlus(text) ==
    IF Literal(<<"a", "n", "y">>, text) = 0 THEN 0
    ELSE 2 + Leading(SubSeq(text, 3, Len(text)), {"y"}, Len(text))

\* [a-z][a-zA-Z0-9_]{0,63}
identifier(text) ==
    IF text # <<>> /\ Head(text) \in {"a", "n", "y"}
    THEN 1 + Leading(Tail(text), {"a", "n", "y"}, 63) ELSE 0

LexRules(text) ==
    << [len |-> Literal(<<"a", "n", "y">>, text), token |-> "ANY_MARK", mark |-> "ANY"],
       [len |-> anyPlus(text), token |-> "ANY_MARK", mark |-> "ANYP"],
       [len |-> Literal(<<"+">>, text), token |-> "+", mark |-> "unset"],
       [len |-> identifier(text), token |-> "ID", mark |-> "unset"],
       [len |-> Leading(text, {" "}, Len(text)), token |-> "white space", mark |-> "unset"] >>

\* the first of the rules with the longest match
Matched(rules) ==
    rules[CHOOSE i \in 1..Len(rules) :
             /\ \A j \in 1..Len(rules) : rules[j].len <= rules[i].len
             /\ \A j \in 1..(i - 1) : rules[j].len < rules[i].len]

\* one call of yylex: white space is read over, the end of the text returns 0
RECURSIVE scan(_)
scan(text) ==
    IF text = <<>>
    THEN [rest |-> <<>>, token |-> [token |-> "0", mark |-> "unset", yytext |-> <<>>]]
    ELSE LET taken(rule) ==
                 IF rule.token = "white space"
                 THEN scan(SubSeq(text, rule.len + 1, Len(text)))
                 ELSE [rest |-> SubSeq(text, rule.len + 1, Len(text)),
                       token |-> [token |-> rule.token, mark |-> rule.mark,
                                  yytext |-> SubSeq(text, 1, rule.len)]]
         IN taken(Matched(LexRules(text)))

yylex ==
    /\ IF tokens = <<>> THEN TRUE ELSE tokens[Len(tokens)].token # "0"
    /\ LET returned(r) == yyin' = r.rest /\ tokens' = Append(tokens, r.token)
       IN returned(scan(yyin))
    /\ UNCHANGED <<heap, host, graph_stack, crashed, last, nops, snapObs, expected,
                   oilr>>

InitLex ==
    LET g == newGraph(EmptyHeap) IN
    /\ heap = g.H
    /\ host = g.p
    /\ graph_stack = NULL
    /\ crashed = FALSE
    /\ last = Op("newGraph", "ok", 0)
    /\ nops = 0
    /\ snapObs = <<>>
    /\ expected = NoObs
    /\ yyin \in Inputs
    /\ tokens = <<>>
    /\ oilr = main(0)

NextLex == yylex

SpecLex == InitLex /\ [][NextLex]_vars

(***************************************************************************)
(* SpecStack: nodes added and removed, copyGraph, restoreGraph, and        *)
(* freeGraphStack(graph_stack) followed by a copyGraph, with which the     *)
(* behaviour ends.  That copyGraph pushes through graph_stack, which       *)
(* still holds the address of the stack that was freed: the push faults,   *)
(* or it writes to whatever is at that address now (a stack allocated      *)
(* since, or the freed memory).                                            *)
(***************************************************************************)
StackInUse == last.op # "freeGraphStack" /\ last.status # "onto-freed"

FreeGraphStack ==
    /\ StackInUse
    /\ graph_stack # NULL
    /\ heap' = freeGraphStack(heap, graph_stack)
    /\ snapObs' = <<>>
    /\ last' = Op("freeGraphStack", "ok", 0)
    /\ expected' = NoObs
    /\ UNCHANGED <<host, graph_stack, crashed>>

CopyGraphAfterFree(faults) ==
    /\ last.op = "freeGraphStack"
    /\ LET written(c) ==
               IF graph_stack \in DOMAIN c.H.stks
               THEN push(c.H, graph_stack, c.p)
               ELSE [c.H EXCEPT !.stks = @ @@ (graph_stack :> <<c.p>>)]
           returned(c) ==
               IF c.status = "crash" \/ faults
               THEN /\ heap' = c.H
                    /\ crashed' = TRUE
                    /\ last' = Op("copyGraph", "crash", 0)
               ELSE /\ heap' = written(c)
                    /\ crashed' = FALSE
                    /\ last' = Op("copyGraph", "onto-freed", 0)
       IN returned(copyGraph(heap, host, << >>))
    /\ expected' = NoObs
    /\ UNCHANGED <<host, graph_stack, snapObs>>

NextStack ==
    \/ \E root \in BOOLEAN : Step(MaxStackOps) /\ StackInUse /\ AddNode(root, 0)
    \/ \E i \in LiveNodeSlots(heap, host) :
           Step(MaxStackOps) /\ StackInUse /\ RemoveNode(i)
    \/ Step(MaxStackOps) /\ StackInUse /\ CopyGraph(<< >>)
    \/ Step(MaxStackOps) /\ StackInUse /\ RestoreGraph
    \/ Step(MaxStackOps) /\ FreeGraphStack
    \/ \E faults \in BOOLEAN : Step(MaxStackOps) /\ CopyGraphAfterFree(faults)

SpecStack == Init /\ [][NextStack]_vars

(***************************************************************************)
(* SpecFree: insertions and removals of nodes and edges with blank labels, *)
(* copyGraph and restoreGraph.                                             *)
(***************************************************************************)
NextFree ==
    \/ Step(MaxFreeOps) /\ AddNode(FALSE, 0)
    \/ \E s \in LiveNodes(heap, host), t \in LiveNodes(heap, host) :
           Step(MaxFreeOps) /\ AddEdge(FALSE, 0, s, t)
    \/ \E i \in LiveNodeSlots(heap, host) : Step(MaxFreeOps) /\ RemoveNode(i)
    \/ \E i \in LiveEdgeSlots(heap, host) : Step(MaxFreeOps) /\ RemoveEdge(i)
    \/ Step(MaxFreeOps) /\ CopyGraph(<< >>)
    \/ Step(MaxFreeOps) /\ RestoreGraph

SpecFree == Init /\ [][NextFree]_vars

(***************************************************************************)
(* SpecValid: validGraph called on graphs built by the operations and on   *)
(* graphs a caller has then put out of order, by adding a node that is     *)
(* already in the graph or by one assignment to a field of the Graph or of *)
(* a Node (the structures are public).  Nothing but validGraph is called   *)
(* on a graph put out of order.                                            *)
(***************************************************************************)
Stores ==
    {"index", "free-slot", "count", "degree", "class-twice", "class-other",
     "class-gone", "root", "root-list"}

\* the store of the given kind, on the node (if the kind has one) and with
\* the slot number j (if the kind has one)
stored(H, g, kind, node, j) ==
    CASE kind = "index" -> [H EXCEPT !.nodes[node].index = j]
      [] kind = "free-slot" -> push(H, H.graphs[g].free_node_slots, j)
      [] kind = "count" -> [H EXCEPT !.graphs[g].number_of_nodes = @ + 1]
      [] kind = "degree" -> [H EXCEPT !.nodes[node].outdegree = @ + 1]
      [] kind = "class-twice" ->
             [H EXCEPT !.graphs[g].nodes_by_label =
                 g_hash_table_insert(@, H.nodes[node].label_class,
                     g_slist_prepend(g_hash_table_lookup(@, H.nodes[node].label_class),
                                     node))]
      [] kind = "class-other" ->
             [H EXCEPT !.graphs[g].nodes_by_label =
                 g_hash_table_insert(@, "INT_L",
                     g_slist_prepend(g_hash_table_lookup(@, "INT_L"), node))]
      [] kind = "class-gone" ->
             [H EXCEPT !.graphs[g].nodes_by_label =
                 g_hash_table_insert(@, H.nodes[node].label_class,
                     g_slist_remove(g_hash_table_lookup(@, H.nodes[node].label_class),
                                    node))]
      [] kind = "root" -> [H EXCEPT !.nodes[node].root = ~@]
      [] kind = "root-list" ->
             [H EXCEPT !.graphs[g].root_nodes = g_slist_prepend(@, node)]

InOrder == last.op \notin {"store", "addNodeAgain", "validGraph"}

Store(kind, node, j) ==
    /\ InOrder
    /\ kind \in {"free-slot", "count"} <=> node = NULL
    /\ kind = "index" => j # heap.nodes[node].index
    /\ kind = "degree" => heap.nodes[node].outdegree < MAX_INCIDENT_EDGES
    /\ heap' = stored(heap, host, kind, node, j)
    /\ last' = Op("store", kind, 0)
    /\ Unsnapped

\* addNode with a node that is in the graph
AddNodeAgain(node) ==
    /\ InOrder
    /\ HasRoom(heap, heap.graphs[host].free_node_slots,
               heap.graphs[host].next_node_index, MAX_NODES)
    /\ heap' = addNode(heap, host, node)
    /\ last' = Op("addNodeAgain", "ok", 0)
    /\ Unsnapped

ValidGraph ==
    /\ last.op # "validGraph"
    /\ last' = Op("validGraph",
                  IF validGraph(heap, host) THEN "true" ELSE "false", 0)
    /\ UNCHANGED heap
    /\ Unsnapped

NextValid ==
    \/ \E root \in BOOLEAN : Step(MaxValidOps) /\ InOrder /\ AddNode(root, 0)
    \/ \E s \in LiveNodes(heap, host), t \in LiveNodes(heap, host) :
           Step(MaxValidOps) /\ InOrder /\ AddEdge(FALSE, 0, s, t)
    \/ \E i \in LiveNodeSlots(heap, host) :
           Step(MaxValidOps) /\ InOrder /\ RemoveNode(i)
    \/ \E i \in LiveEdgeSlots(heap, host) :
           Step(MaxValidOps) /\ InOrder /\ RemoveEdge(i)
    \/ \E kind \in Stores, node \in LiveNodes(heap, host) \cup {NULL},
          j \in 0..(MAX_NODES - 1) :
           Step(MaxValidOps) /\ Store(kind, node, j)
    \/ \E node \in LiveNodes(heap, host) : Step(MaxValidOps) /\ AddNodeAgain(node)
    \/ Step(MaxValidOps) /\ ValidGraph

SpecValid == Init /\ [][NextValid]_vars

(***************************************************************************)
(* SpecToggle: nodes added, and relabelNode called with change_root set.   *)
(* The call is recorded with the index of its node (on); a call that       *)
(* follows a call on the same node is recorded as the second of a pair.    *)
(* expected is what the graph showed before the call, or before the first  *)
(* call of the pair.                                                       *)
(***************************************************************************)
OpOn(op, status, on) == [op |-> op, status |-> status, run |-> 0, on |-> on]

SecondToggle(node) ==
    /\ last.op = "relabelNode"
    /\ last.status = "root-toggled"
    /\ last.on = heap.nodes[node].index

ToggleRoot(node, k, change_label) ==
    /\ LET l == passLabel(heap, k)
       IN heap' = relabelNode(l.H, host, node, l.p, change_label, TRUE)
    /\ last' = OpOn("relabelNode",
                    IF SecondToggle(node) THEN "root-toggled-twice"
                    ELSE "root-toggled",
                    heap.nodes[node].index)
    /\ expected' = IF SecondToggle(node) THEN expected ELSE Observe(heap, host)
    /\ UNCHANGED <<host, graph_stack, crashed, snapObs>>

NextToggle ==
    \/ \E root \in BOOLEAN : Step(MaxToggleOps) /\ AddNode(root, 0)
    \/ \E n \in LiveNodes(heap, host), cl \in BOOLEAN :
           \E k \in (IF cl THEN EdgeLabelArgs ELSE {0}) :
               Step(MaxToggleOps) /\ ToggleRoot(n, k, cl)

SpecToggle == Init /\ [][NextToggle]_vars

(***************************************************************************)
(* SpecPop: copyGraph and restoreGraph, the latter called also when no     *)
(* graph is on the graph stack (graph_stack still NULL, or every copy      *)
(* restored).  restoreGraph frees the graph it is given before it looks at *)
(* the stack; with nothing to pop it then reads data->graph through the    *)
(* NULL that pop returned (or pops from the NULL graph_stack).             *)
(***************************************************************************)
NothingToRestore(H, stack) == IF stack = NULL THEN TRUE ELSE H.stks[stack] = <<>>

RestoreGraphDereferencesNull(H, stack) == NothingToRestore(H, stack)

RestoreNothing ==
    /\ RestoreGraphDereferencesNull(heap, graph_stack)
    /\ heap' = freeGraph(heap, host)
    /\ crashed' = TRUE
    /\ last' = Op("restoreGraph", "crash", 0)
    /\ expected' = NoObs
    /\ UNCHANGED <<host, graph_stack, snapObs>>

NextPop ==
    \/ \E root \in BOOLEAN : Step(MaxPopOps) /\ AddNode(root, 0)
    \/ ~crashed /\ \E i \in LiveNodeSlots(heap, host) :
                       Step(MaxPopOps) /\ RemoveNode(i)
    \/ Step(MaxPopOps) /\ CopyGraph(<< >>)
    \/ Step(MaxPopOps) /\ RestoreGraph
    \/ Step(MaxPopOps) /\ RestoreNothing

SpecPop == Init /\ [][NextPop]_vars

(***************************************************************************)
(* The OILR prototype: its steps leave the graphs of graph.c and the lexer *)
(* alone.  The pool starts as malloc left it, zeroes or not.               *)
(***************************************************************************)
OilrStep(bound) ==
    /\ oilr.ok
    /\ nops < bound
    /\ nops' = nops + 1
    /\ UNCHANGED <<heap, host, graph_stack, crashed, snapObs, expected, yyin, tokens>>

InitOilr ==
    /\ heap = EmptyHeap
    /\ host = NULL
    /\ graph_stack = NULL
    /\ crashed = FALSE
    /\ last = Op("main", "ok", 0)
    /\ nops = 0
    /\ snapObs = << >>
    /\ expected = NoObs
    /\ yyin = <<>>
    /\ tokens = <<>>
    /\ oilr \in {main(fresh) : fresh \in {0, Junk}}

\* where elem stands in a list of elements: "only", "first", "middle" or "last"
PlaceIn(list, elem) ==
    IF Len(list) = 1 THEN "only"
    ELSE IF list[1] = elem THEN "first"
    ELSE IF list[Len(list)] = elem THEN "last"
    ELSE "middle"

Without(list, elem) == SelectSeq(list, LAMBDA x : x # elem)

\* the list elements of the pool that lie apart: the index chain and the
\* out-list of each Nodge taken as a Node
Elems == {chainFor(PoolAt(id)) : id \in 0..(MaxPool - 1)}
           \cup {outListFor(PoolAt(id)) : id \in 0..(MaxPool - 1)}

PrependElem(elem) ==
    /\ OilrStep(MaxDListOps)
    /\ oilr' = [prependElem(oilr, IdxList, elem) EXCEPT !.listed = <<elem>> \o @]
    /\ last' = OpOn("prependElem", "ok", elem)

RemoveElem(elem) ==
    /\ OilrStep(MaxDListOps)
    /\ oilr' = [removeElem(oilr, elem) EXCEPT !.listed = Without(@, elem)]
    /\ last' = OpOn("removeElem", PlaceIn(oilr.listed, elem), elem)

\* prependElem of an element in no list, removeElem of an element of the list
NextDList ==
    \/ \E elem \in Elems \ Range(oilr.listed) : PrependElem(elem)
    \/ \E elem \in Range(oilr.listed) : RemoveElem(elem)

SpecDList == InitOilr /\ [][NextDList]_vars

\* how a call of the prototype ended: "ok", "exit" for exit(1), or "crash"
\* for a write through a pointer to no word of the program
Ended(S, exits) == IF exits THEN "exit" ELSE IF S.ok THEN "ok" ELSE "crash"

\* allocNodge has a Nodge to hand out
PoolHasRoom == oilr.freeList # 0 \/ oilr.freeId < MaxPool

OilrAddNode ==
    /\ OilrStep(MaxOilrOps)
    /\ PoolHasRoom
    /\ oilr' = [oilr_addNode(oilr) EXCEPT !.nodes = @ \cup {allocated(oilr)}]
    /\ last' = OpOn("addNode", Ended(oilr', FALSE), allocated(oilr))

OilrAddEdge(source, target) ==
    /\ OilrStep(MaxOilrOps)
    /\ PoolHasRoom
    /\ oilr' = [oilr_addEdge(oilr, source, target)
                   EXCEPT !.edges = @ \cup {allocated(oilr)}]
    /\ last' = OpOn("addEdge", Ended(oilr', FALSE), allocated(oilr))

OilrDeleteNode(n) ==
    /\ OilrStep(MaxOilrOps)
    /\ oilr' = [oilr_deleteNode(oilr, n) EXCEPT !.nodes = @ \ {n}]
    /\ last' = OpOn("deleteNode", Ended(oilr', deleteNodeExits(oilr, n)), n)

OilrDeleteEdge(e) ==
    /\ OilrStep(MaxOilrOps)
    /\ oilr' = [oilr_deleteEdge(oilr, e) EXCEPT !.edges = @ \ {e}]
    /\ last' = OpOn("deleteEdge", Ended(oilr', FALSE), e)

\* the calls of the prototype on live nodes and edges, source = target included
NextOilr ==
    \/ OilrAddNode
    \/ \E source, target \in oilr.nodes : OilrAddEdge(source, target)
    \/ \E n \in oilr.nodes : OilrDeleteNode(n)
    \/ \E e \in oilr.edges : OilrDeleteEdge(e)

SpecOilr == InitOilr /\ [][NextOilr]_vars

(***************************************************************************)
(* SpecFull: addNode and addEdge called also when an array they write to   *)
(* is full: no slot on its free-slot stack and its next index at the size  *)
(* it was allocated with.  Neither function tests the next index: the      *)
(* pointer is written at array[next], outside the allocation, and the next *)
(* index is raised.  The write faults, or it lands in whatever memory      *)
(* follows the array, which the model does not follow: the behaviour ends  *)
(* with that call.                                                         *)
(***************************************************************************)
InArrays == last.status # "past-array"

NodeArrayFull(H, g) ==
    ~HasRoom(H, H.graphs[g].free_node_slots, H.graphs[g].next_node_index, MAX_NODES)

EdgeArraysFull(H, g, source, target) ==
    \/ ~HasRoom(H, H.graphs[g].free_edge_slots, H.graphs[g].next_edge_index, MAX_EDGES)
    \/ ~HasRoom(H, H.nodes[source].free_out_edge_slots,
                H.nodes[source].next_out_edge_index, MAX_INCIDENT_EDGES)
    \/ ~HasRoom(H, H.nodes[target].free_in_edge_slots,
                H.nodes[target].next_in_edge_index, MAX_INCIDENT_EDGES)

\* the write outside the array
WrittenPastArray(name, H2, faults) ==
    /\ heap' = (IF faults THEN heap ELSE H2)
    /\ crashed' = faults
    /\ last' = Op(name, "past-array", 0)
    /\ expected' = NoObs
    /\ UNCHANGED <<host, graph_stack, snapObs>>

AddNodeToFullArray(faults) ==
    /\ NodeArrayFull(heap, host)
    /\ LET added(n) == WrittenPastArray("addNode", addNode(n.H, host, n.p), faults)
       IN added(newNode(heap, FALSE, NULL))

AddEdgeToFullArray(source, target, faults) ==
    /\ EdgeArraysFull(heap, host, source, target)
    /\ LET added(e) == WrittenPastArray("addEdge", addEdge(e.H, host, e.p), faults)
       IN added(newEdge(heap, FALSE, NULL, source, target))

NextFull ==
    \/ InArrays /\ Step(MaxFullOps) /\ AddNode(FALSE, 0)
    \/ InArrays /\ \E s \in LiveNodes(heap, host), t \in LiveNodes(heap, host) :
                       Step(MaxFullOps) /\ AddEdge(FALSE, 0, s, t)
    \/ InArrays /\ \E i \in LiveEdgeSlots(heap, host) :
                       Step(MaxFullOps) /\ RemoveEdge(i)
    \/ InArrays /\ \E faults \in BOOLEAN :
                       Step(MaxFullOps) /\ AddNodeToFullArray(faults)
    \/ InArrays /\ \E s \in LiveNodes(heap, host), t \in LiveNodes(heap, host),
                          faults \in BOOLEAN :
                       Step(MaxFullOps) /\ AddEdgeToFullArray(s, t, faults)

SpecFull == Init /\ [][NextFull]_vars

(***************************************************************************)
(* SpecRefs: nodes and edges added, removed and relabelled.                *)
(***************************************************************************)
NextRefs ==
    \/ \E root \in BOOLEAN, k \in EdgeLabelArgs : Step(MaxRefsOps) /\ AddNode(root, k)
    \/ \E s \in LiveNodes(heap, host), t \in LiveNodes(heap, host) :
           Step(MaxRefsOps) /\ AddEdge(FALSE, 0, s, t)
    \/ \E i \in LiveNodeSlots(heap, host) : Step(MaxRefsOps) /\ RemoveNode(i)
    \/ \E i \in LiveEdgeSlots(heap, host) : Step(MaxRefsOps) /\ RemoveEdge(i)
    \/ \E n \in LiveNodes(heap, host), k \in EdgeLabelArgs, cr \in BOOLEAN :
           Step(MaxRefsOps) /\ RelabelNode(n, k, TRUE, cr)
    \/ \E e \in LiveEdges(heap, host), k \in EdgeLabelArgs :
           Step(MaxRefsOps) /\ RelabelEdge(e, k, TRUE, FALSE)

SpecRefs == Init /\ [][NextRefs]_vars

(***************************************************************************)
(* SpecKeep: relabelNode and relabelEdge called with change_label false,   *)
(* with NULL and with labels the caller has built.  The status says which  *)
(* flag the call was to change, and the call is recorded with the index    *)
(* of its node or edge.                                                    *)
(***************************************************************************)
KeepNodeLabel(node, k, change_root) ==
    /\ LET l == passLabel(heap, k)
       IN heap' = relabelNode(l.H, host, node, l.p, FALSE, change_root)
    /\ last' = OpOn("relabelNode", IF change_root THEN "flag" ELSE "nothing",
                    heap.nodes[node].index)
    /\ Unsnapped

KeepEdgeLabel(edge, k, change_bidirectional) ==
    /\ LET l == passLabel(heap, k)
       IN heap' = relabelEdge(l.H, host, edge, l.p, FALSE, change_bidirectional)
    /\ last' = OpOn("relabelEdge", IF change_bidirectional THEN "flag" ELSE "nothing",
                    heap.edges[edge].index)
    /\ Unsnapped

NextKeep ==
    \/ \E root \in BOOLEAN, k \in LabelArgs : Step(MaxKeepOps) /\ AddNode(root, k)
    \/ \E k \in EdgeLabelArgs :
           \E s \in LiveNodes(heap, host), t \in LiveNodes(heap, host) :
               Step(MaxKeepOps) /\ AddEdge(FALSE, k, s, t)
    \/ \E n \in LiveNodes(heap, host), k \in LabelArgs, cr \in BOOLEAN :
           Step(MaxKeepOps) /\ KeepNodeLabel(n, k, cr)
    \/ \E e \in LiveEdges(heap, host), k \in EdgeLabelArgs, cb \in BOOLEAN :
           Step(MaxKeepOps) /\ KeepEdgeLabel(e, k, cb)

SpecKeep == Init /\ [][NextKeep]_vars

(***************************************************************************)
(* SpecDetach: nodes and edges added and removed; the removeNode calls     *)
(* are recorded with the index they are given.                             *)
(***************************************************************************)
RemoveNodeAt(index) ==
    /\ LET r == removeNode(heap, host, index)
       IN /\ heap' = r.H
          /\ last' = OpOn("removeNode", r.status, index)
    /\ Unsnapped

NextDetach ==
    \/ Step(MaxDetachOps) /\ AddNode(FALSE, 0)
    \/ \E s \in LiveNodes(heap, host), t \in LiveNodes(heap, host) :
           Step(MaxDetachOps) /\ AddEdge(FALSE, 0, s, t)
    \/ \E i \in LiveEdgeSlots(heap, host) : Step(MaxDetachOps) /\ RemoveEdge(i)
    \/ \E i \in LiveNodeSlots(heap, host) : Step(MaxDetachOps) /\ RemoveNodeAt(i)

SpecDetach == Init /\ [][NextDetach]_vars

(***************************************************************************)
(* SpecLabels: nodes added and relabelled with labels of every list length *)
(* from 0 to MaxListLength and, as the first atom, every kind of atom a    *)
(* label of the host graph can hold, edges added, and copyGraph.           *)
(***************************************************************************)
AtomKinds ==
    {IntAtom(1), NegAtom(IntAtom(1)), CharAtom("c"), StrAtom("s"),
     ConcatAtom(StrAtom("s"), StrAtom("t")), VarAtom("x")}

\* the list of the given length whose first atom is first
ListFrom(first, length) == [i \in 1..length |-> IF i = 1 THEN first ELSE IntAtom(i)]

\* the first atoms tried for a list of the given length
FirstAtoms(length) ==
    IF length = 1 THEN AtomKinds ELSE {IntAtom(1), StrAtom("s"), VarAtom("x")}

TestLabels ==
    {Label(mark, <<>>, FALSE) : mark \in {"NONE", "RED"}}
      \cup UNION {{Label("NONE", ListFrom(first, length), FALSE) :
                     first \in FirstAtoms(length)} : length \in 1..MaxListLength}
      \cup {Label("NONE", ListFrom(VarAtom("xs"), length), TRUE) : length \in {1, 3}}

\* the labels edges are given
EdgeTestLabels ==
    {Label("RED", <<>>, FALSE), Label("NONE", <<StrAtom("s")>>, FALSE),
     Label("NONE", ListFrom(IntAtom(1), MaxListLength), FALSE)}

NextLabels ==
    \/ \E label \in TestLabels : Step(MaxLabelOps) /\ AddLabelledNode(label)
    \/ \E label \in EdgeTestLabels :
           \E s \in LiveNodes(heap, host), t \in LiveNodes(heap, host) :
               Step(MaxLabelOps) /\ AddLabelledEdge(label, s, t)
    \/ \E n \in LiveNodes(heap, host), label \in TestLabels :
           Step(MaxLabelOps) /\ RelabelLabelledNode(n, label)
    \/ \E junk \in [UninitLabels(heap, host) -> UninitLabelFields] :
           Step(MaxLabelOps) /\ CopyGraph(junk)

SpecLabels == Init /\ [][NextLabels]_vars

(***************************************************************************)
(* SpecRelabel: nodes and edges added with the blank label and relabelled  *)
(* with a label of every class.                                            *)
(***************************************************************************)
ClassLabels ==
    {Label("RED", <<>>, FALSE), Label("NONE", <<IntAtom(1)>>, FALSE),
     Label("NONE", <<StrAtom("s")>>, FALSE), Label("NONE", <<VarAtom("x")>>, FALSE),
     Label("NONE", <<VarAtom("xs")>>, TRUE)}
      \cup {Label("NONE", ListFrom(IntAtom(1), length), FALSE) : length \in 2..5}

NextRelabel ==
    \/ Step(MaxRelabelOps) /\ AddNode(FALSE, 0)
    \/ \E s \in LiveNodes(heap, host), t \in LiveNodes(heap, host) :
           Step(MaxRelabelOps) /\ AddEdge(FALSE, 0, s, t)
    \/ \E n \in LiveNodes(heap, host), label \in ClassLabels :
           Step(MaxRelabelOps) /\ RelabelLabelledNode(n, label)
    \/ \E e \in LiveEdges(heap, host), label \in ClassLabels :
           Step(MaxRelabelOps) /\ RelabelLabelledEdge(e, label)

SpecRelabel == Init /\ [][NextRelabel]_vars

(***************************************************************************)
(* SpecBack: as SpecRelabel, with every relabelling recorded with the      *)
(* index of its node or edge (on); a relabelling that follows one of the   *)
(* same node or edge is recorded as the second of a pair.  expected is     *)
(* the class index, by indices, before the call or before the first call   *)
(* of the pair.                                                            *)
(***************************************************************************)
ClassSets(H, g) ==
    [nodes |-> [c \in LabelClasses |->
                   {H.nodes[getNodesByLabel(H, g, c)[i]].index :
                       i \in 1..Len(getNodesByLabel(H, g, c))}],
     edges |-> [c \in LabelClasses |->
                   {H.edges[getEdgesByLabel(H, g, c)[i]].index :
                       i \in 1..Len(getEdgesByLabel(H, g, c))}]]

SecondRelabel(op, index) ==
    /\ last.op = op
    /\ last.status = "relabelled"
    /\ last.on = index

Recorded(op, index) ==
    /\ last' = OpOn(op, IF SecondRelabel(op, index) THEN "relabelled-twice"
                        ELSE "relabelled", index)
    /\ expected' = IF SecondRelabel(op, index) THEN expected
                   ELSE ClassSets(heap, host)
    /\ UNCHANGED <<host, graph_stack, crashed, snapObs>>

RecordedRelabelNode(node, label) ==
    /\ LET l == makeLabel(heap, label)
       IN heap' = relabelNode(l.H, host, node, l.p, TRUE, FALSE)
    /\ Recorded("relabelNode", heap.nodes[node].index)

RecordedRelabelEdge(edge, label) ==
    /\ LET l == makeLabel(heap, label)
       IN heap' = relabelEdge(l.H, host, edge, l.p, TRUE, FALSE)
    /\ Recorded("relabelEdge", heap.edges[edge].index)

NextBack ==
    \/ Step(MaxBackOps) /\ AddNode(FALSE, 0)
    \/ \E s \in LiveNodes(heap, host), t \in LiveNodes(heap, host) :
           Step(MaxBackOps) /\ AddEdge(FALSE, 0, s, t)
    \/ \E n \in LiveNodes(heap, host), label \in ClassLabels :
           Step(MaxBackOps) /\ RecordedRelabelNode(n, label)
    \/ \E e \in LiveEdges(heap, host), label \in ClassLabels :
           Step(MaxBackOps) /\ RecordedRelabelEdge(e, label)

SpecBack == Init /\ [][NextBack]_vars

(***************************************************************************)
(* Shorthands for the working graph.                                       *)
(***************************************************************************)
G0 == heap.graphs[host]
NodeArray == heap.arrs[G0.nodes]
EdgeArray == heap.arrs[G0.edges]

\* the number of times x occurs in the sequence seq
Occurrences(seq, x) == Cardinality({i \in 1..Len(seq) : seq[i] = x})

\* the slots of a pointer array that hold x
SlotsHolding(array, x) == {i \in DOMAIN array : array[i] = x}

(***************************************************************************)
(* C1: after every operation of a sequence of add_node, add_edge,          *)
(* remove_node, remove_edge, relabel_node and relabel_edge on a graph made *)
(* by new_graph, validGraph returns true on the graph.                     *)
(***************************************************************************)
C1_ValidAfterEveryOperation == validGraph(heap, host)

(***************************************************************************)
(* C2: copyGraph of a reachable graph completes, and the graph that the    *)
(* restoreGraph matching it returns shows what the working graph showed    *)
(* when it was copied: the same live node and edge indices, flags,         *)
(* degrees, label classes, incidence sets, root set and labels (mark and   *)
(* atom list).                                                             *)
(***************************************************************************)
C2_RestoreReturnsCopiedGraph ==
    /\ ~crashed
    /\ last.op = "restoreGraph" => Observe(heap, host) = expected

(***************************************************************************)
(* C3: graphs are restored in LIFO order: the i-th restoreGraph of a run   *)
(* of successive calls, i > 1, returns a graph that shows what the working *)
(* graph showed at the i-th most recent copyGraph not yet restored.        *)
(***************************************************************************)
C3_RestoredInLifoOrder ==
    \A i \in 2..MaxSnapshots :
        (last.op = "restoreGraph" /\ last.run = i) => Observe(heap, host) = expected

(***************************************************************************)
(* C4: a graph on the graph stack is independent of the working graph and  *)
(* of the other graphs on the stack: its storage holds what it held when   *)
(* it was pushed, whatever was done since, and it shares no graph          *)
(* structure, node, edge, pointer array, free-slot stack or label other    *)
(* than blank_label with any of them.                                      *)
(***************************************************************************)
Snapshots == IF graph_stack = NULL THEN <<>> ELSE heap.stks[graph_stack]

C4_SnapshotsIndependent ==
    /\ Len(Snapshots) = Len(snapObs)
    /\ \A k \in 1..Len(Snapshots) :
           /\ Image(heap, Snapshots[k]) = snapObs[k].image
           /\ Disjoint(Storage(heap, Snapshots[k]), Storage(heap, host))
           /\ \A j \in 1..(k - 1) :
                  Disjoint(Storage(heap, Snapshots[k]), Storage(heap, Snapshots[j]))

\* the working graph changed after a copy with a labelled node was pushed
C4_Witness ==
    /\ Len(Snapshots) > 0
    /\ last.op \in {"relabelNode", "removeNode", "addEdge"}
    /\ Storage(heap, Head(Snapshots)).labels # {}
    /\ Observe(heap, host) # Head(snapObs).obs

(***************************************************************************)
(* C5: the slots below the high-water mark of the node array and of the    *)
(* edge array are partitioned into occupied slots and free-stack entries:  *)
(* an empty slot is exactly once on the free-slot stack, an occupied slot  *)
(* is not on it, and the stack holds nothing else.                         *)
(***************************************************************************)
Partitioned(array, next, stack) ==
    /\ \A i \in 0..(next - 1) :
           Occurrences(stack, i) = (IF array[i] = NULL THEN 1 ELSE 0)
    /\ \A k \in 1..Len(stack) : stack[k] \in 0..(next - 1)

C5_SlotsPartitioned ==
    /\ Partitioned(NodeArray, G0.next_node_index, heap.stks[G0.free_node_slots])
    /\ Partitioned(EdgeArray, G0.next_edge_index, heap.stks[G0.free_edge_slots])

\* a node removed below the high-water mark, another node still there
C5_Witness ==
    /\ last.op = "removeNode" /\ last.status = "ok"
    /\ heap.stks[G0.free_node_slots] # <<>>
    /\ G0.number_of_nodes > 0

(***************************************************************************)
(* C6: every live node and edge is stored at the slot equal to its own     *)
(* index, and no operation changes the index of a node or edge that is     *)
(* live before and after it.                                               *)
(***************************************************************************)
IndexIsSlot ==
    /\ \A i \in LiveNodeSlots(heap, host) : heap.nodes[NodeArray[i]].index = i
    /\ \A i \in LiveEdgeSlots(heap, host) : heap.edges[EdgeArray[i]].index = i

IndexKept ==
    /\ \A n \in LiveNodes(heap, host) \cap LiveNodes(heap', host') :
           heap'.nodes[n].index = heap.nodes[n].index
    /\ \A e \in LiveEdges(heap, host) \cap LiveEdges(heap', host') :
           heap'.edges[e].index = heap.edges[e].index

C6_IndexStability == [](IndexIsSlot) /\ [][IndexKept]_vars

\* a node that stays in slot 1 when the node in slot 0 is removed
C6_Witness ==
    /\ last.op = "removeNode" /\ last.status = "ok"
    /\ NodeArray[0] = NULL
    /\ NodeArray[1] # NULL
    /\ heap.nodes[NodeArray[1]].index = 1

(***************************************************************************)
(* C7: number_of_nodes is the number of non-empty slots of the node array  *)
(* and number_of_edges that of the edge array, also after a remove_node    *)
(* that was refused.                                                       *)
(***************************************************************************)
C7_CountsMatch ==
    /\ G0.number_of_nodes = Cardinality(LiveNodeSlots(heap, host))
    /\ G0.number_of_edges = Cardinality(LiveEdgeSlots(heap, host))

C7_Witness ==
    /\ last.op = "removeNode" /\ last.status = "refused"
    /\ G0.number_of_nodes > 0

(***************************************************************************)
(* C8: a live edge is in exactly one slot of the out_edges array of its    *)
(* source and in exactly one slot of the in_edges array of its target, and *)
(* in no slot of the arrays of any other node.                             *)
(***************************************************************************)
C8_IncidenceOnce ==
    \A e \in LiveEdges(heap, host) : \A n \in LiveNodes(heap, host) :
        /\ Cardinality(SlotsHolding(heap.arrs[heap.nodes[n].out_edges], e))
             = (IF n = heap.edges[e].source THEN 1 ELSE 0)
        /\ Cardinality(SlotsHolding(heap.arrs[heap.nodes[n].in_edges], e))
             = (IF n = heap.edges[e].target THEN 1 ELSE 0)

\* a self-loop next to an edge between two nodes
C8_Witness ==
    \E e1 \in LiveEdges(heap, host), e2 \in LiveEdges(heap, host) :
        /\ heap.edges[e1].source = heap.edges[e1].target
        /\ heap.edges[e2].source # heap.edges[e2].target

(***************************************************************************)
(* C9: a node's outdegree is the number of non-empty slots of its          *)
(* out_edges array below next_out_edge_index, its indegree that of its     *)
(* in_edges array below next_in_edge_index.                                *)
(***************************************************************************)
C9_DegreesMatch ==
    \A n \in LiveNodes(heap, host) :
        LET N == heap.nodes[n] IN
        /\ N.outdegree = Cardinality({i \in 0..(N.next_out_edge_index - 1) :
                                         heap.arrs[N.out_edges][i] # NULL})
        /\ N.indegree = Cardinality({i \in 0..(N.next_in_edge_index - 1) :
                                        heap.arrs[N.in_edges][i] # NULL})

\* an edge removed from a slot below the last one of both arrays
C9_Witness ==
    \E n \in LiveNodes(heap, host) :
        /\ last.op = "removeEdge"
        /\ heap.stks[heap.nodes[n].free_out_edge_slots] # <<>>
        /\ heap.stks[heap.nodes[n].free_in_edge_slots] # <<>>
        /\ heap.nodes[n].outdegree = 1

(***************************************************************************)
(* C10: for every label class c, nodes_by_label holds under c every live   *)
(* node whose label is of class c, once, and nothing else; edges_by_label  *)
(* likewise for the edges.                                                 *)
(***************************************************************************)
C10_ClassIndexExact ==
    \A c \in LabelClasses :
        /\ \A n \in DOMAIN heap.nodes \cup LiveNodes(heap, host) :
               Occurrences(getNodesByLabel(heap, host, c), n)
                 = (IF /\ n \in LiveNodes(heap, host)
                       /\ getLabelClass(heap.labels[heap.nodes[n].label]) = c
                    THEN 1 ELSE 0)
        /\ \A i \in 1..Len(getNodesByLabel(heap, host, c)) :
               getNodesByLabel(heap, host, c)[i] \in LiveNodes(heap, host)
        /\ \A e \in DOMAIN heap.edges \cup LiveEdges(heap, host) :
               Occurrences(getEdgesByLabel(heap, host, c), e)
                 = (IF /\ e \in LiveEdges(heap, host)
                       /\ getLabelClass(heap.labels[heap.edges[e].label]) = c
                    THEN 1 ELSE 0)
        /\ \A i \in 1..Len(getEdgesByLabel(heap, host, c)) :
               getEdgesByLabel(heap, host, c)[i] \in LiveEdges(heap, host)

\* a node and an edge relabelled into another class, next to ones that were not
C10_Witness ==
    /\ last.op \in {"relabelNode", "relabelEdge"}
    /\ Len(getNodesByLabel(heap, host, "INT_L")) = 1
    /\ Len(getNodesByLabel(heap, host, "EMPTY_L")) = 1
    /\ \E c \in LabelClasses : Len(getEdgesByLabel(heap, host, c)) = 1

(***************************************************************************)
(* C11: in the working graph and in every graph on the graph stack, a live *)
(* node is on the root list exactly when its root flag is set, it is there *)
(* at most once, and the root list holds nothing but live nodes.           *)
(***************************************************************************)
RootListExact(H, g) ==
    /\ \A n \in LiveNodes(H, g) :
           Occurrences(getRootNodes(H, g), n) = (IF H.nodes[n].root THEN 1 ELSE 0)
    /\ \A i \in 1..Len(getRootNodes(H, g)) : getRootNodes(H, g)[i] \in LiveNodes(H, g)

C11_RootListExact ==
    /\ RootListExact(heap, host)
    /\ \A k \in 1..Len(Snapshots) : RootListExact(heap, Snapshots[k])

\* a restored graph with a root node and a non-root node
C11_Witness ==
    /\ last.op = "restoreGraph"
    /\ Len(getRootNodes(heap, host)) = 1
    /\ G0.number_of_nodes = 2

(***************************************************************************)
(* C12: a removeNode that is refused because the node has incident edges   *)
(* changes nothing: the heap (node array, free-slot stacks, indices,       *)
(* counts, class lists, root list, labels) and the graph handle are as     *)
(* before the call.                                                        *)
(***************************************************************************)
C12_RefusedRemoveKeepsGraph ==
    [][(last'.op = "removeNode" /\ last'.status = "refused")
          => (heap' = heap /\ host' = host)]_vars

\* removeNode refused for a labelled root node with incident edges
C12_Witness ==
    /\ last.op = "removeNode" /\ last.status = "refused"
    /\ \E n \in LiveNodes(heap, host) :
           /\ heap.nodes[n].indegree + heap.nodes[n].outdegree > 0
           /\ heap.nodes[n].root
           /\ heap.nodes[n].label # BlankAddr

(***************************************************************************)
(* C13: an insertion takes the slot on top of the free-slot stack, the one *)
(* freed last and not yet taken again, and pops it; with no free slot it   *)
(* takes the slot at the high-water mark and increments the mark.  The     *)
(* node (edge) is stored in that slot and the slot is its index.           *)
(***************************************************************************)
Inserted(array, next, stack, array2, next2, stack2, x, index) ==
    LET slot == IF stack # <<>> THEN Head(stack) ELSE next IN
    /\ index = slot
    /\ array[slot] = NULL
    /\ array2 = [array EXCEPT ![slot] = x]
    /\ next2 = (IF stack # <<>> THEN next ELSE next + 1)
    /\ stack2 = (IF stack # <<>> THEN Tail(stack) ELSE stack)

NodeInserted ==
    \A n \in LiveNodes(heap', host') \ LiveNodes(heap, host) :
        Inserted(NodeArray, G0.next_node_index, heap.stks[G0.free_node_slots],
                 NodeArray', G0'.next_node_index, heap'.stks[G0'.free_node_slots],
                 n, heap'.nodes[n].index)

EdgeInserted ==
    \A e \in LiveEdges(heap', host') \ LiveEdges(heap, host) :
        Inserted(EdgeArray, G0.next_edge_index, heap.stks[G0.free_edge_slots],
                 EdgeArray', G0'.next_edge_index, heap'.stks[G0'.free_edge_slots],
                 e, heap'.edges[e].index)

C13_InsertionReusesLastFreed ==
    [][/\ last'.op = "addNode" =>
            /\ LiveNodes(heap', host') # LiveNodes(heap, host)
            /\ NodeInserted
       /\ last'.op = "addEdge" =>
            /\ LiveEdges(heap', host') # LiveEdges(heap, host)
            /\ EdgeInserted]_vars

\* a node inserted when two slots were free: one is still on the stack
C13_Witness ==
    /\ last.op = "addNode"
    /\ heap.stks[G0.free_node_slots] # <<>>
    /\ G0.number_of_nodes = 2

(***************************************************************************)
(* C14: a removal from the slot below the high-water mark decrements the   *)
(* mark by one and leaves the free-slot stack as it was; a removal from    *)
(* any lower slot leaves the mark as it was and pushes that slot, and      *)
(* nothing else, on the free-slot stack.                                   *)
(***************************************************************************)
Removed(slot, next, stack, next2, stack2) ==
    IF slot = next - 1
    THEN next2 = next - 1 /\ stack2 = stack
    ELSE next2 = next /\ stack2 = <<slot>> \o stack

C14_RemovalShrinksOrPushes ==
    [][/\ (last'.op = "removeNode" /\ last'.status = "ok") =>
            /\ Cardinality(LiveNodeSlots(heap, host) \ LiveNodeSlots(heap', host')) = 1
            /\ \A i \in LiveNodeSlots(heap, host) \ LiveNodeSlots(heap', host') :
                   Removed(i, G0.next_node_index, heap.stks[G0.free_node_slots],
                           G0'.next_node_index, heap'.stks[G0'.free_node_slots])
       /\ last'.op = "removeEdge" =>
            /\ Cardinality(LiveEdgeSlots(heap, host) \ LiveEdgeSlots(heap', host')) = 1
            /\ \A i \in LiveEdgeSlots(heap, host) \ LiveEdgeSlots(heap', host') :
                   Removed(i, G0.next_edge_index, heap.stks[G0.free_edge_slots],
                           G0'.next_edge_index, heap'.stks[G0'.free_edge_slots])]_vars

\* edge 0 was removed from below the last slot: slot 0 is on the stack and
\* the mark is still 2
C14_Witness ==
    /\ last.op = "removeEdge"
    /\ heap.stks[G0.free_edge_slots] = <<0>>
    /\ G0.next_edge_index = 2
    /\ G0.number_of_edges = 1

(***************************************************************************)
(* C15: a removeNode or removeEdge that finds its slot empty (it removes   *)
(* nothing and is not refused for incident edges) reports an invariant     *)
(* violation and returns with the heap and the graph as they were.         *)
(***************************************************************************)
C15_RemoveFromEmptySlotFails ==
    [][/\ (/\ last'.op = "removeNode" /\ last'.status # "refused"
           /\ LiveNodeSlots(heap', host') = LiveNodeSlots(heap, host))
          => (last'.status = "invariant-violation" /\ ~crashed' /\ heap' = heap)
       /\ (/\ last'.op = "removeEdge"
           /\ LiveEdgeSlots(heap', host') = LiveEdgeSlots(heap, host))
          => (last'.status = "invariant-violation" /\ ~crashed' /\ heap' = heap)]_vars

(***************************************************************************)
(* C16: getNode, getEdge, getOutEdge and getInEdge report out-of-range for *)
(* every index at or above the next index of their array and read the      *)
(* array only at an index below it.                                        *)
(***************************************************************************)
C16_QueriesRejectIndexAtNext ==
    last.op \in {"getNode", "getEdge", "getOutEdge", "getInEdge"}
        => last.status \in {"out-of-range", "read-below-next"}

(***************************************************************************)
(* C17: a label whose list has more than 5 elements is rejected: an        *)
(* operation whose label was found too long by the classification leaves   *)
(* the labels, the cached classes and the class index of the graph as they *)
(* were before the operation.                                              *)
(***************************************************************************)
C17_TooLongLabelRejected ==
    [][last'.status = "logged-too-long" =>
          /\ Observe(heap', host') = Observe(heap, host)
          /\ \A c \in LabelClasses :
                 /\ getNodesByLabel(heap', host', c) = getNodesByLabel(heap, host, c)
                 /\ getEdgesByLabel(heap', host', c) = getEdgesByLabel(heap, host, c)]_vars

(***************************************************************************)
(* C18: the class getLabelClass gives a label of at most 5 elements is a   *)
(* function of has_list_variable, the list length and the kind of the      *)
(* first atom: list_var if has_list_variable is set; otherwise empty for   *)
(* the empty list, list2..list5 for the lengths 2..5, and for length 1 int *)
(* for an integer constant or a negation, string for a character constant, *)
(* a string constant or a concatenation, atomic_var for a variable.  Every *)
(* node and edge has been classified so when it was added or relabelled.   *)
(***************************************************************************)
StatedClass(has_list_variable, length, kind) ==
    IF has_list_variable THEN "LISTVAR_L"
    ELSE CASE length = 0 -> "EMPTY_L"
           [] length = 2 -> "LIST2_L"
           [] length = 3 -> "LIST3_L"
           [] length = 4 -> "LIST4_L"
           [] length = 5 -> "LIST5_L"
           [] length = 1 /\ kind \in {"INTEGER_CONSTANT", "NEG"} -> "INT_L"
           [] length = 1 /\ kind \in {"CHARACTER_CONSTANT", "STRING_CONSTANT",
                                      "CONCAT"} -> "STRING_L"
           [] length = 1 /\ kind = "VARIABLE" -> "ATOMIC_VAR_L"

FirstKind(label) == IF label.list = <<>> THEN "none" ELSE Head(label.list).type

ClassifiedAsStated(label, label_class) ==
    label.list_length <= 5 =>
        label_class = StatedClass(label.has_list_variable, label.list_length,
                                  FirstKind(label))

C18_ClassIsStatedFunction ==
    /\ \A n \in LiveNodes(heap, host) :
           ClassifiedAsStated(heap.labels[heap.nodes[n].label],
                              heap.nodes[n].label_class)
    /\ \A e \in LiveEdges(heap, host) :
           ClassifiedAsStated(heap.labels[heap.edges[e].label],
                              heap.edges[e].label_class)

\* two nodes have been classified: a list of three atoms with a list
\* variable, and a single concatenation
C18_Witness ==
    /\ \E n \in LiveNodes(heap, host) :
           /\ heap.labels[heap.nodes[n].label].has_list_variable
           /\ heap.labels[heap.nodes[n].label].list_length = 3
    /\ \E n \in LiveNodes(heap, host) :
           /\ heap.labels[heap.nodes[n].label].list_length = 1
           /\ FirstKind(heap.labels[heap.nodes[n].label]) = "CONCAT"

(***************************************************************************)
(* C19: the copy copyLabel makes of a label of at most 5 elements (the     *)
(* blank label, a label with a NULL list and any mark, a list of 1 to 5    *)
(* atoms) has the label class, the mark, the list_length and the           *)
(* has_list_variable of the label: so for the label of every node and edge *)
(* of the working graph and of its copy, whenever copyGraph has copied it. *)
(***************************************************************************)
SameAsLabel(label, label_copy) ==
    label.list_length <= 5 =>
        /\ getLabelClass(label_copy) = getLabelClass(label)
        /\ label_copy.mark = label.mark
        /\ label_copy.list_length = label.list_length
        /\ label_copy.has_list_variable = label.has_list_variable

\* the graph copyGraph has just pushed
NewCopy == Head(heap'.stks[graph_stack'])

C19_CopyLabelPreserves ==
    [][last'.op = "copyGraph" /\ last'.status = "ok" =>
          /\ \A i \in LiveNodeSlots(heap, host) :
                 SameAsLabel(heap.labels[heap.nodes[getNode(heap, host, i)].label],
                             heap'.labels[heap'.nodes[getNode(heap', NewCopy, i)].label])
          /\ \A i \in LiveEdgeSlots(heap, host) :
                 SameAsLabel(heap.labels[heap.edges[getEdge(heap, host, i)].label],
                             heap'.labels[heap'.edges[getEdge(heap', NewCopy, i)].label])]_vars

(***************************************************************************)
(* C20: relabelNode with a new label of a class c2 other than the node's   *)
(* class c1 takes the node off the list of c1 in nodes_by_label, puts it   *)
(* once on the list of c2 and records c2 as its class; every other node is *)
(* on the lists it was on.  relabelEdge does the same in edges_by_label.   *)
(***************************************************************************)
\* x, of recorded class c1 before the step and with a label of class c2
\* after it, is listed after the step (occurrences2) as the claim says
Moved(c1, c2, recorded2, occurrences, occurrences2) ==
    IF c1 = c2
    THEN \A c \in LabelClasses : occurrences2[c] = occurrences[c]
    ELSE /\ recorded2 = c2
         /\ \A c \in LabelClasses : occurrences2[c] = (IF c = c2 THEN 1 ELSE 0)

NodeMoved(n) ==
    Moved(heap.nodes[n].label_class,
          getLabelClass(heap'.labels[heap'.nodes[n].label]),
          heap'.nodes[n].label_class,
          [c \in LabelClasses |-> Occurrences(getNodesByLabel(heap, host, c), n)],
          [c \in LabelClasses |-> Occurrences(getNodesByLabel(heap', host', c), n)])

EdgeMoved(e) ==
    Moved(heap.edges[e].label_class,
          getLabelClass(heap'.labels[heap'.edges[e].label]),
          heap'.edges[e].label_class,
          [c \in LabelClasses |-> Occurrences(getEdgesByLabel(heap, host, c), e)],
          [c \in LabelClasses |-> Occurrences(getEdgesByLabel(heap', host', c), e)])

C20_RelabelMovesBetweenClassLists ==
    [][/\ (last'.op = "relabelNode" /\ last'.status = "ok" =>
              \A n \in LiveNodes(heap, host) : NodeMoved(n))
       /\ (last'.op = "relabelEdge" /\ last'.status = "ok" =>
              \A e \in LiveEdges(heap, host) : EdgeMoved(e))]_vars

\* two nodes added with the blank label, and a relabelNode that has moved
\* one of them to the list of LIST3_L
C20_Witness ==
    /\ last.op = "relabelNode"
    /\ nops = 3
    /\ Len(getNodesByLabel(heap, host, "LIST3_L")) = 1
    /\ Len(getNodesByLabel(heap, host, "EMPTY_L")) = 1

(***************************************************************************)
(* C21: relabelNode with change_root set, with or without change_label,    *)
(* flips the root flag of its node and puts the node on the root list if   *)
(* it became a root, takes it off if it stopped being one, and leaves the  *)
(* other nodes as they were; a second such call on the node brings back    *)
(* the root flags and the root set there were before the first.            *)
(***************************************************************************)
RootFlags(H, g) ==
    [i \in LiveNodeSlots(H, g) |-> H.nodes[getNode(H, g, i)].root]

RootSet(H, g) ==
    {H.nodes[getRootNodes(H, g)[i]].index : i \in 1..Len(getRootNodes(H, g))}

C21_ToggleRootFlipsAndReturns ==
    /\ last.status = "root-toggled" =>
          /\ RootFlags(heap, host) =
                [i \in DOMAIN expected.nodes |->
                    IF i = last.on THEN ~expected.nodes[i].root
                    ELSE expected.nodes[i].root]
          /\ RootSet(heap, host) =
                (IF expected.nodes[last.on].root
                 THEN expected.roots \ {last.on}
                 ELSE expected.roots \cup {last.on})
          /\ Len(getRootNodes(heap, host)) = Cardinality(RootSet(heap, host))
    /\ last.status = "root-toggled-twice" =>
          /\ RootFlags(heap, host) =
                [i \in DOMAIN expected.nodes |-> expected.nodes[i].root]
          /\ RootSet(heap, host) = expected.roots
          /\ Len(getRootNodes(heap, host)) = Cardinality(RootSet(heap, host))

\* node 1, a root next to the roots 0 and 2, was toggled twice
C21_Witness ==
    /\ last.status = "root-toggled-twice"
    /\ last.on = 1
    /\ RootSet(heap, host) = {0, 1, 2}

(***************************************************************************)
(* C22: a node (edge) relabelled to a label of the class it has, or to a   *)
(* label of another class and then to one of the class it had, is listed   *)
(* in nodes_by_label (edges_by_label) as before: for every class the set   *)
(* of the nodes and the set of the edges listed under it are unchanged.    *)
(***************************************************************************)
\* the class recorded now for the node or edge of the last call
ClassNow ==
    IF last.op = "relabelNode"
    THEN heap.nodes[getNode(heap, host, last.on)].label_class
    ELSE heap.edges[getEdge(heap, host, last.on)].label_class

\* the class it was listed under before the call or the pair of calls
ListedBefore(c) ==
    IF last.op = "relabelNode" THEN last.on \in expected.nodes[c]
    ELSE last.on \in expected.edges[c]

C22_RelabelBackKeepsClassSets ==
    (last.status \in {"relabelled", "relabelled-twice"} /\ ListedBefore(ClassNow))
        => ClassSets(heap, host) = expected

\* node 0 is listed before node 1 under EMPTY_L after two nodes were added
\* with the blank label and one was relabelled twice: node 0 has left the
\* list and has come back
C22_Witness ==
    /\ last.op = "relabelNode"
    /\ last.status = "relabelled-twice"
    /\ nops = 4
    /\ Len(getNodesByLabel(heap, host, "EMPTY_L")) = 2
    /\ heap.nodes[getNodesByLabel(heap, host, "EMPTY_L")[1]].index = 0
    /\ heap.nodes[getNodesByLabel(heap, host, "EMPTY_L")[2]].index = 1

(***************************************************************************)
(* C23: validGraph returns false on every graph in which one of the        *)
(* invariants 1 to 7 does not hold: a node or edge whose index is not its   *)
(* slot, an empty slot not once on the free-slot stack or a stack entry    *)
(* that is no empty slot, a wrong count, an edge not once in the incidence *)
(* arrays of its endpoints, a wrong degree, a node or edge not once under  *)
(* its class or listed under another, a root list that is not the nodes    *)
(* with the root flag.                                                     *)
(***************************************************************************)
Invariants1to7 ==
    /\ IndexIsSlot
    /\ C5_SlotsPartitioned
    /\ C7_CountsMatch
    /\ C8_IncidenceOnce
    /\ C9_DegreesMatch
    /\ C10_ClassIndexExact
    /\ RootListExact(heap, host)

C23_ValidGraphComplete ==
    (last.op = "validGraph" /\ ~Invariants1to7) => last.status = "false"

(***************************************************************************)
(* C24: removeEdge takes the edge out of the out_edges array of its source *)
(* and the in_edges array of its target by the rule of the slotted arrays: *)
(* from the last slot below next_out_edge_index (next_in_edge_index), the  *)
(* mark goes down by one and the free-slot stack stays; from a lower slot, *)
(* the mark stays and that slot alone is pushed on the array's stack.      *)
(***************************************************************************)
OutSlotRemoved(e) ==
    LET S == heap.nodes[heap.edges[e].source]
        S2 == heap'.nodes[heap.edges[e].source]
    IN \A i \in SlotsHolding(heap.arrs[S.out_edges], e) :
           Removed(i, S.next_out_edge_index, heap.stks[S.free_out_edge_slots],
                   S2.next_out_edge_index, heap'.stks[S2.free_out_edge_slots])

InSlotRemoved(e) ==
    LET T == heap.nodes[heap.edges[e].target]
        T2 == heap'.nodes[heap.edges[e].target]
    IN \A i \in SlotsHolding(heap.arrs[T.in_edges], e) :
           Removed(i, T.next_in_edge_index, heap.stks[T.free_in_edge_slots],
                   T2.next_in_edge_index, heap'.stks[T2.free_in_edge_slots])

C24_IncidenceRemovalShrinksOrPushes ==
    [][last'.op = "removeEdge" =>
          \A e \in LiveEdges(heap, host) \ LiveEdges(heap', host') :
              OutSlotRemoved(e) /\ InSlotRemoved(e)]_vars

\* of two edges from node 0 to node 1 the first was removed: slot 0 of the
\* out_edges of node 0 and of the in_edges of node 1 is on the stack of its
\* array, and both marks are still 2
C24_Witness ==
    /\ last.op = "removeEdge"
    /\ nops = 5
    /\ G0.number_of_nodes = 2
    /\ heap.stks[heap.nodes[NodeArray[0]].free_out_edge_slots] = <<0>>
    /\ heap.nodes[NodeArray[0]].next_out_edge_index = 2
    /\ heap.stks[heap.nodes[NodeArray[1]].free_in_edge_slots] = <<0>>
    /\ heap.nodes[NodeArray[1]].next_in_edge_index = 2

(***************************************************************************)
(* C25: copyGraph runs to its end on every graph, also one with an empty   *)
(* slot below next_edge_index; in the copy the source and target of every  *)
(* live edge are nodes of the copy, with the indices the endpoints had in   *)
(* the graph copied, and every non-empty slot of the out_edges and         *)
(* in_edges of a node of the copy holds an edge of the copy, with the       *)
(* index the edge in that array had in the graph copied.                    *)
(***************************************************************************)
OwnEntities(H, c) ==
    /\ \A e \in LiveEdges(H, c) :
           /\ H.edges[e].source \in LiveNodes(H, c)
           /\ H.edges[e].target \in LiveNodes(H, c)
    /\ \A n \in LiveNodes(H, c) :
           /\ Range(H.arrs[H.nodes[n].out_edges]) \ {NULL} \subseteq LiveEdges(H, c)
           /\ Range(H.arrs[H.nodes[n].in_edges]) \ {NULL} \subseteq LiveEdges(H, c)

\* the copy's links, by index, are those observed in the graph copied
SameLinks(copy, original) ==
    /\ DOMAIN copy.edges = DOMAIN original.edges
    /\ DOMAIN copy.nodes = DOMAIN original.nodes
    /\ \A i \in DOMAIN copy.edges :
           /\ copy.edges[i].source = original.edges[i].source
           /\ copy.edges[i].target = original.edges[i].target
    /\ \A i \in DOMAIN copy.nodes :
           /\ copy.nodes[i].out = original.nodes[i].out
           /\ copy.nodes[i].in = original.nodes[i].in

CopiesLinked ==
    \A k \in 1..Len(Snapshots) :
        /\ OwnEntities(heap, Snapshots[k])
        /\ SameLinks(Observe(heap, Snapshots[k]), snapObs[k].obs)

C25_CopyLinksOwnEntities ==
    /\ last.op = "copyGraph" => last.status = "ok"
    /\ CopiesLinked

(***************************************************************************)
(* C26: the free-slot stacks of the copy copyGraph makes (of the node      *)
(* array, of the edge array, and of the out_edges and in_edges of every    *)
(* node) hold the slots the stacks of the graph hold, in the same order,   *)
(* so that insertions into the copy take the slots insertions into the     *)
(* graph would have taken.                                                 *)
(***************************************************************************)
SameFreeSlots(H, g, H2, c) ==
    /\ H2.stks[H2.graphs[c].free_node_slots] = H.stks[H.graphs[g].free_node_slots]
    /\ H2.stks[H2.graphs[c].free_edge_slots] = H.stks[H.graphs[g].free_edge_slots]
    /\ \A i \in LiveNodeSlots(H, g) :
           /\ H2.stks[H2.nodes[getNode(H2, c, i)].free_out_edge_slots]
                = H.stks[H.nodes[getNode(H, g, i)].free_out_edge_slots]
           /\ H2.stks[H2.nodes[getNode(H2, c, i)].free_in_edge_slots]
                = H.stks[H.nodes[getNode(H, g, i)].free_in_edge_slots]

C26_CopyKeepsFreeSlotStacks ==
    [][last'.op = "copyGraph" /\ last'.status = "ok" =>
          SameFreeSlots(heap, host, heap', NewCopy)]_vars

(***************************************************************************)
(* C27: freeGraphStack frees every graph still on the graph stack and      *)
(* leaves the graph stack empty and usable: graph_stack is NULL or an      *)
(* allocated stack with nothing on it, and a copyGraph after it runs to    *)
(* its end and leaves its copy, an allocated graph, on top of the stack.   *)
(***************************************************************************)
C27_FreedStackEmptyAndUsable ==
    /\ last.op = "freeGraphStack" =>
          /\ DOMAIN heap.graphs = {host}
          /\ graph_stack # NULL =>
                (graph_stack \in DOMAIN heap.stks /\ heap.stks[graph_stack] = <<>>)
    /\ last.op = "copyGraph" =>
          /\ last.status = "ok"
          /\ graph_stack \in DOMAIN heap.stks
          /\ Head(heap.stks[graph_stack]) \in DOMAIN heap.graphs

(***************************************************************************)
(* C28: printGraph writes the live nodes by rising index, each with (R)    *)
(* exactly when it is a root, then the live edges by rising index, each    *)
(* with (B) exactly when it is bidirectional and with the indices of its   *)
(* source and target, and nothing for an empty slot; a graph without       *)
(* nodes is written as "[ | ]"; and the graph restoreGraph returns is      *)
(* written as the graph was at the copyGraph that made it.                 *)
(***************************************************************************)
Written(out, field) == SelectSeq(out, LAMBDA x : field \in DOMAIN x)

Rising(items, field) ==
    \A i \in 1..Len(items), j \in 1..Len(items) : i < j => items[i][field] < items[j][field]

PrintedAsStated(H, g) ==
    LET out == printGraph(H, g)
        ns  == Written(out, "n")
        es  == Written(out, "e")
    IN /\ {ns[i].n : i \in 1..Len(ns)} = LiveNodeSlots(H, g)
       /\ {es[i].e : i \in 1..Len(es)} = LiveEdgeSlots(H, g)
       /\ Rising(ns, "n") /\ Rising(es, "e")
       /\ \A i \in 1..Len(ns) : ns[i].R = H.nodes[getNode(H, g, ns[i].n)].root
       /\ \A i \in 1..Len(es) :
             /\ es[i].B = H.edges[getEdge(H, g, es[i].e)].bidirectional
             /\ es[i].source = H.nodes[getSource(H, getEdge(H, g, es[i].e))].index
             /\ es[i].target = H.nodes[getTarget(H, getEdge(H, g, es[i].e))].index
       /\ \A i \in 1..Len(out) : \A j \in 1..Len(out) :
             ("n" \in DOMAIN out[i] /\ "e" \in DOMAIN out[j]) => i < j
       /\ LiveNodeSlots(H, g) = {} => out = <<printf("[ | ]")>>

PrintedHostAsStated == ~crashed => PrintedAsStated(heap, host)

RestoredPrintsAsCopied ==
    [][last'.op = "restoreGraph" /\ nops' # nops =>
          printGraph(heap', host') = Head(snapObs).printed]_vars

C28_PrintGraph ==
    [][/\ ~crashed' => PrintedAsStated(heap', host')
       /\ last'.op = "copyGraph" => last'.status = "ok"
       /\ last'.op = "restoreGraph" /\ nops' # nops =>
             printGraph(heap', host') = Head(snapObs).printed]_vars

(***************************************************************************)
(* C29: the lexer reads the text any+ as one token, ANY_MARK with the mark *)
(* ANYP (the text any is ANY_MARK with the mark ANY), and it returns the   *)
(* mark ANYP for no other text.                                            *)
(***************************************************************************)
AnyPlusText == <<"a", "n", "y", "+">>

C29_AnyPlusIsOneMarkToken ==
    [][/\ Literal(AnyPlusText, yyin) # 0 =>
             tokens' = Append(tokens, [token |-> "ANY_MARK", mark |-> "ANYP",
                                       yytext |-> AnyPlusText])
       /\ \A i \in 1..Len(tokens') :
             tokens'[i].mark = "ANYP" => tokens'[i].yytext = AnyPlusText
       /\ \A i \in 1..Len(tokens') :
             tokens'[i].yytext = <<"a", "n", "y">> =>
                 (tokens'[i].token = "ANY_MARK" /\ tokens'[i].mark = "ANY")]_vars

(***************************************************************************)
(* C30: addEdge of an edge from s to t raises the outdegree of s by one,   *)
(* the indegree of t by one (both of the one node when s = t) and          *)
(* number_of_edges by one, and changes nothing else of what was there: the *)
(* other degree of s and of t, the degrees and the incident-edge arrays of *)
(* every other node, the index, endpoints, flag and label of every edge    *)
(* there before, the node array with its count, high-water mark and free   *)
(* slots, nodes_by_label and the root list.                                *)
(***************************************************************************)
OutSide == {"outdegree", "out_edges", "free_out_edge_slots", "next_out_edge_index"}
InSide  == {"indegree", "in_edges", "free_in_edge_slots", "next_in_edge_index"}

\* the fields of node n, and what hangs on them, are as before the step
NodeKeeps(n, fields) ==
    /\ \A f \in fields : heap'.nodes[n][f] = heap.nodes[n][f]
    /\ \A f \in fields \cap {"out_edges", "in_edges"} :
           heap'.arrs[heap.nodes[n][f]] = heap.arrs[heap.nodes[n][f]]
    /\ \A f \in fields \cap {"free_out_edge_slots", "free_in_edge_slots"} :
           heap'.stks[heap.nodes[n][f]] = heap.stks[heap.nodes[n][f]]
    /\ "label" \in fields =>
           heap'.labels[heap.nodes[n].label] = heap.labels[heap.nodes[n].label]

EdgeAdded(e, s, t) ==
    /\ heap'.nodes[s].outdegree = heap.nodes[s].outdegree + 1
    /\ heap'.nodes[t].indegree = heap.nodes[t].indegree + 1
    /\ s # t => NodeKeeps(s, InSide) /\ NodeKeeps(t, OutSide)
    /\ G0'.number_of_edges = G0.number_of_edges + 1
    /\ \A n \in LiveNodes(heap, host) :
           /\ NodeKeeps(n, {"index", "root", "label", "label_class"})
           /\ n \notin {s, t} => NodeKeeps(n, OutSide \cup InSide)
    /\ \A x \in LiveEdges(heap, host) :
           /\ heap'.edges[x] = heap.edges[x]
           /\ heap'.labels[heap.edges[x].label] = heap.labels[heap.edges[x].label]
           /\ EdgeArray'[heap.edges[x].index] = x
    /\ \A f \in {"nodes", "free_node_slots", "next_node_index", "number_of_nodes",
                  "nodes_by_label", "root_nodes"} : G0'[f] = G0[f]
    /\ NodeArray' = NodeArray
    /\ heap'.stks[G0.free_node_slots] = heap.stks[G0.free_node_slots]

DegreesLowered(e) ==
    \A n \in LiveNodes(heap, host) :
        /\ heap'.nodes[n].outdegree =
              heap.nodes[n].outdegree - (IF n = heap.edges[e].source THEN 1 ELSE 0)
        /\ heap'.nodes[n].indegree =
              heap.nodes[n].indegree - (IF n = heap.edges[e].target THEN 1 ELSE 0)

Detached(node) ==
    \A e \in LiveEdges(heap, host) :
        heap.edges[e].source # node /\ heap.edges[e].target # node

C31_DetachedNodeIsRemoved ==
    [][/\ last'.op = "removeEdge" =>
            /\ Cardinality(LiveEdges(heap, host) \ LiveEdges(heap', host')) = 1
            /\ LiveNodes(heap', host') = LiveNodes(heap, host)
            /\ \A e \in LiveEdges(heap, host) \ LiveEdges(heap', host') :
                   DegreesLowered(e)
       /\ (last'.op = "removeNode" /\ Detached(NodeArray[last'.on])) =>
            /\ last'.status = "ok"
            /\ NodeArray'[last'.on] = NULL
            /\ Removed(last'.on, G0.next_node_index, heap.stks[G0.free_node_slots],
                       G0'.next_node_index, heap'.stks[G0'.free_node_slots])]_vars

\* a node removed after the edges of the graph were removed, one of them
\* from below the last slot
C31_Witness ==
    /\ last.op = "removeNode" /\ last.status = "ok"
    /\ G0.number_of_edges = 0
    /\ heap.stks[G0.free_edge_slots] # <<>>

(***************************************************************************)
(* C32: relabelNode and relabelEdge called with change_label false leave   *)
(* the label of the node or edge, its recorded label class and both class  *)
(* indices as they were, whichever label is passed; with the other flag    *)
(* false as well the whole graph is as it was; and relabelEdge told to     *)
(* change the bidirectional flag changes that flag of the edge and         *)
(* nothing else of the graph.                                              *)
(***************************************************************************)
LabelKept(label, label2, class, class2) ==
    /\ label2 = label
    /\ heap'.labels[label] = heap.labels[label]
    /\ class2 = class
    /\ G0'.nodes_by_label = G0.nodes_by_label
    /\ G0'.edges_by_label = G0.edges_by_label

NodeLabelKept(n) ==
    LabelKept(heap.nodes[n].label, heap'.nodes[n].label,
              heap.nodes[n].label_class, heap'.nodes[n].label_class)

EdgeLabelKept(e) ==
    LabelKept(heap.edges[e].label, heap'.edges[e].label,
              heap.edges[e].label_class, heap'.edges[e].label_class)

OnlyFlagFlipped(e) ==
    /\ heap'.edges[e].bidirectional = ~heap.edges[e].bidirectional
    /\ Image(heap', host') =
          Image([heap EXCEPT !.edges[e].bidirectional = heap'.edges[e].bidirectional],
                host)

C32_UnchangedLabelFrame ==
    [][/\ (last'.op = "relabelNode" /\ last'.status \in {"flag", "nothing"}) =>
            NodeLabelKept(NodeArray[last'.on])
       /\ (last'.op = "relabelEdge" /\ last'.status \in {"flag", "nothing"}) =>
            EdgeLabelKept(EdgeArray[last'.on])
       /\ (last'.op \in {"relabelNode", "relabelEdge"} /\ last'.status = "nothing") =>
            (host' = host /\ Image(heap', host') = Image(heap, host))
       /\ (last'.op = "relabelEdge" /\ last'.status = "flag") =>
            (host' = host /\ OnlyFlagFlipped(EdgeArray[last'.on]))]_vars

\* a call with both flags false and a label that is not NULL, on a graph
\* with a labelled node and an edge
C32_Witness ==
    /\ last.op \in {"relabelNode", "relabelEdge"}
    /\ last.status = "nothing"
    /\ G0.number_of_edges > 0
    /\ \E n \in LiveNodes(heap, host) : heap.nodes[n].label # BlankAddr
    /\ \E l \in DOMAIN heap.labels : l \notin Storage(heap, host).labels /\ l # BlankAddr

(***************************************************************************)
(* C33: copyGraph leaves the graph it copies as it was (nodes, edges,      *)
(* labels, arrays, free-slot stacks, next indices, class indices and root  *)
(* list), and leaves the graph stack one deeper, the graphs that were on   *)
(* it still there, in their order and unchanged.                           *)
(***************************************************************************)
CopyGraphFrame ==
    /\ host' = host
    /\ Image(heap', host) = Image(heap, host)
    /\ \A k \in 1..Len(Snapshots) :
           Image(heap', Snapshots[k]) = Image(heap, Snapshots[k])

CopyGraphPushed ==
    /\ Len(Snapshots') = Len(Snapshots) + 1
    /\ Tail(Snapshots') = Snapshots

CopyGraphKeepsGraph ==
    [][last'.op = "copyGraph" =>
          CopyGraphFrame /\ (last'.status = "ok" => CopyGraphPushed)]_vars

C33_CopyGraphFrame ==
    [][last'.op = "copyGraph" => CopyGraphFrame /\ CopyGraphPushed]_vars

(***************************************************************************)
(* C34: nothing refers to a node or an edge that is not in the graph.      *)
(* Every non-NULL slot of the out_edges and in_edges arrays of a live node *)
(* holds a live edge E, and E is in slot E.index of the edge array; the    *)
(* source and the target of a live edge are live nodes N, and N is in slot *)
(* N.index of the node array; the class lists and the root list hold live  *)
(* nodes and live edges only.                                              *)
(***************************************************************************)
IsLiveEdge(e) ==
    /\ e \in DOMAIN heap.edges
    /\ e \in LiveEdges(heap, host)
    /\ EdgeArray[heap.edges[e].index] = e

IsLiveNode(n) ==
    /\ n \in DOMAIN heap.nodes
    /\ n \in LiveNodes(heap, host)
    /\ NodeArray[heap.nodes[n].index] = n

HoldsLiveEdges(array) == \A j \in DOMAIN array : array[j] # NULL => IsLiveEdge(array[j])

C34_NoDanglingReferences ==
    /\ \A n \in LiveNodes(heap, host) :
           /\ IsLiveNode(n)
           /\ HoldsLiveEdges(heap.arrs[heap.nodes[n].out_edges])
           /\ HoldsLiveEdges(heap.arrs[heap.nodes[n].in_edges])
    /\ \A e \in LiveEdges(heap, host) :
           /\ IsLiveEdge(e)
           /\ IsLiveNode(heap.edges[e].source)
           /\ IsLiveNode(heap.edges[e].target)
    /\ \A c \in DOMAIN G0.nodes_by_label :
           \A i \in 1..Len(G0.nodes_by_label[c]) : IsLiveNode(G0.nodes_by_label[c][i])
    /\ \A c \in DOMAIN G0.edges_by_label :
           \A i \in 1..Len(G0.edges_by_label[c]) : IsLiveEdge(G0.edges_by_label[c][i])
    /\ \A i \in 1..Len(G0.root_nodes) : IsLiveNode(G0.root_nodes[i])

\* an edge removed from below the last slot, next to an edge of a root node
C34_Witness ==
    /\ last.op = "removeEdge"
    /\ G0.number_of_edges = 1
    /\ heap.stks[G0.free_edge_slots] # <<>>
    /\ G0.root_nodes # <<>>

(***************************************************************************)
(* C35: every entry of a free-slot stack (of the node array, of the edge   *)
(* array, of the out_edges and in_edges arrays of every live node) is an   *)
(* index below the next index of its array, the slot at that index is      *)
(* empty, and no index is on a stack twice.  Hence addNode and addEdge     *)
(* write into a slot that was empty, and a slot at the next index is       *)
(* written only with the next index raised by one.                         *)
(***************************************************************************)
FreeSlotsSound(array, next, stack) ==
    /\ \A k \in 1..Len(stack) :
           /\ stack[k] \in 0..(next - 1)
           /\ array[stack[k]] = NULL
    /\ \A j \in 1..Len(stack), k \in 1..Len(stack) : stack[j] = stack[k] => j = k

AllFreeSlotsSound ==
    /\ FreeSlotsSound(NodeArray, G0.next_node_index, heap.stks[G0.free_node_slots])
    /\ FreeSlotsSound(EdgeArray, G0.next_edge_index, heap.stks[G0.free_edge_slots])
    /\ \A n \in LiveNodes(heap, host) :
           /\ FreeSlotsSound(heap.arrs[heap.nodes[n].out_edges],
                             heap.nodes[n].next_out_edge_index,
                             heap.stks[heap.nodes[n].free_out_edge_slots])
           /\ FreeSlotsSound(heap.arrs[heap.nodes[n].in_edges],
                             heap.nodes[n].next_in_edge_index,
                             heap.stks[heap.nodes[n].free_in_edge_slots])

\* x went into one slot of the array, which was empty; the other slots are
\* as they were, and the next index is raised exactly when the slot was at it
EmptySlotTaken(array, next, array2, next2, x) ==
    \E slot \in DOMAIN array :
        /\ array[slot] = NULL
        /\ array2 = [array EXCEPT ![slot] = x]
        /\ slot <= next
        /\ next2 = (IF slot = next THEN next + 1 ELSE next)

EdgeTakesEmptySlots(e, s, t) ==
    /\ EmptySlotTaken(EdgeArray, G0.next_edge_index, EdgeArray', G0'.next_edge_index, e)
    /\ EmptySlotTaken(heap.arrs[heap.nodes[s].out_edges],
                      heap.nodes[s].next_out_edge_index,
                      heap'.arrs[heap.nodes[s].out_edges],
                      heap'.nodes[s].next_out_edge_index, e)
    /\ EmptySlotTaken(heap.arrs[heap.nodes[t].in_edges],
                      heap.nodes[t].next_in_edge_index,
                      heap'.arrs[heap.nodes[t].in_edges],
                      heap'.nodes[t].next_in_edge_index, e)

InsertionsTakeEmptySlots ==
    /\ last'.op = "addNode" =>
          \A n \in LiveNodes(heap', host') \ LiveNodes(heap, host) :
              EmptySlotTaken(NodeArray, G0.next_node_index,
                             NodeArray', G0'.next_node_index, n)
    /\ last'.op = "addEdge" =>
          \A e \in LiveEdges(heap', host') \ LiveEdges(heap, host) :
              EdgeTakesEmptySlots(e, heap'.edges[e].source, heap'.edges[e].target)

C36_CeilingsRespected ==
    /\ last.status # "past-array"
    /\ G0.next_node_index <= MAX_NODES
    /\ G0.next_edge_index <= MAX_EDGES
    /\ \A n \in LiveNodes(heap, host) :
           /\ heap.nodes[n].next_out_edge_index <= MAX_INCIDENT_EDGES
           /\ heap.nodes[n].next_in_edge_index <= MAX_INCIDENT_EDGES

(***************************************************************************)
(* C37: the number of graphs on the graph stack is the number of copyGraph *)
(* calls less the number of restoreGraph calls: a copyGraph leaves it one  *)
(* higher, a restoreGraph that returns a graph one lower, any other call   *)
(* as it was.  restoreGraph returns a graph, the one on top, and frees the *)
(* graph it was given, only when the stack holds a graph; called with      *)
(* nothing on the stack it reads through no missing entry and leaves the   *)
(* graph it was given allocated and unchanged.                             *)
(***************************************************************************)
Depth == Len(Snapshots)

DepthCounts ==
    Depth' = (IF last'.op = "copyGraph" THEN Depth + 1
              ELSE IF last'.op = "restoreGraph" /\ last'.status = "ok" THEN Depth - 1
              ELSE Depth)

RestoreTakesTop ==
    (last'.op = "restoreGraph" /\ Depth > 0) =>
        /\ last'.status = "ok"
        /\ host' = Head(Snapshots)
        /\ host \notin DOMAIN heap'.graphs

RestoreOfNothingKeepsGraph ==
    (last'.op = "restoreGraph" /\ Depth = 0) =>
        /\ ~crashed'
        /\ host' = host
        /\ host \in DOMAIN heap'.graphs
        /\ Image(heap', host) = Image(heap, host)

RestoreCounted == [][DepthCounts /\ RestoreTakesTop]_vars

C37_DepthCountedRestoreGuarded ==
    [][DepthCounts /\ RestoreTakesTop /\ RestoreOfNothingKeepsGraph]_vars

(***************************************************************************)
(* The doubly-linked lists of the OILR prototype                           *)
(***************************************************************************)
\* more steps along next than a list without a cycle can take
ListFuel == 16 * (MaxPool + 1)

RECURSIVE Along(_, _, _)
\* the elements met from elem on by following next, fuel of them at most
Along(S, elem, fuel) ==
    IF elem = 0 \/ fuel = 0 \/ elem + nextElem \notin DOMAIN S.mem THEN <<>>
    ELSE <<elem>> \o Along(S, rd(S, elem + nextElem), fuel - 1)

\* the elements reachable from the list dl by next, first to last
Reachable(S, dl) == Along(S, rd(S, dl + nextElem), ListFuel)

\* C40: after any sequence of prependElem(dl, e) with e in no list and
\* removeElem(e) with e in dl, the count of dl is the number of elements
\* reachable from dl by next, these are the elements prepended and not
\* removed since, the last prepended first, and the head of each is dl.
C40_ListHoldsPrependedElements ==
    /\ oilr.ok
    /\ rd(oilr, IdxList + data) = Len(Reachable(oilr, IdxList))
    /\ Reachable(oilr, IdxList) = oilr.listed
    /\ \A i \in 1..Len(oilr.listed) : rd(oilr, oilr.listed[i] + head) = IdxList

\* an element between two others has been removed, and two are left
C40_Witness ==
    /\ last.op = "removeElem"
    /\ last.status = "middle"
    /\ Len(oilr.listed) = 2
    /\ Reachable(oilr, IdxList) = oilr.listed

(***************************************************************************)
(* The node index of the OILR prototype                                    *)
(***************************************************************************)
\* the nodes of the elements reachable from the index list, first to last
Indexed(S) ==
    [i \in 1..Len(Reachable(S, IdxList)) |-> rd(S, Reachable(S, IdxList)[i] + data)]

\* traversal of the index list by next comes to an end
IndexEnds(S) == Len(Reachable(S, IdxList)) < ListFuel

OnceInIndex(S, n) == Cardinality({i \in 1..Len(Indexed(S)) : Indexed(S)[i] = n}) = 1

\* C38: while the prototype runs, after any sequence of addNode, addEdge,
\* deleteEdge and deleteNode on live nodes and edges, source = target
\* included, traversal of the node index list by next ends, every live node
\* is in the list exactly once, and the count of the list is the number of
\* live nodes.
C38_IndexHoldsLiveNodes ==
    oilr.ok =>
        /\ IndexEnds(oilr)
        /\ \A n \in oilr.nodes : OnceInIndex(oilr, n)
        /\ rd(oilr, IdxList + data) = Cardinality(oilr.nodes)

(***************************************************************************)
(* The nodes addNode hands out                                             *)
(***************************************************************************)
\* indeg, outdeg and loopdeg of the node addNode has just returned are 0
FreshNodeIsBare ==
    last.op = "addNode" =>
        /\ rd(oilr, inListFor(last.on) + data) = 0
        /\ rd(oilr, outListFor(last.on) + data) = 0
        /\ rd(oilr, last.on + loops) = 0

\* deleteNode of the node addNode has just returned does not call exit
FreshNodeCanBeDeleted ==
    (last.op = "addNode" /\ last'.op = "deleteNode" /\ last'.on = last.on)
        => last'.status # "exit"

\* C39: a node returned by addNode has in-degree 0, out-degree 0 and loop
\* count 0, also when its Nodge is taken from the free list after a
\* deleteNode or deleteEdge; deleteNode of a node just added never stops
\* the program with "Dangling condition violated".
C39_FreshNodeIsBare == []FreshNodeIsBare /\ [][FreshNodeCanBeDeleted]_vars

\* the same of the nodes added to a pool that malloc handed out as zeroes:
\* a Nodge from the free list keeps the words of its last use
ReusedNodeIsBare == oilr.fresh = 0 => FreshNodeIsBare

====
